---- MODULE Spec2Model ----
(***************************************************************************)
(* A model of the crawl-and-rewrite engine of bitbucket-hg-exporter        *)
(* (src/bitbucket_hg_exporter/__main__.py): the URL normalisation and      *)
(* storage path of get_and_save_json, the request loop of bb_query_api,    *)
(* the recursive crawler with its crawl tree and DummyResponse cache, the  *)
(* link rewriter make_urls_relative and the comment reconstruction.        *)
(*                                                                         *)
(* Strings that the code only compares or copies are TLA+ strings; a path  *)
(* of an API URL is the sequence of its '/'-separated segments, a query    *)
(* string the sequence of its name=value pairs, a parameter dictionary the *)
(* sequence of its items in insertion order (Python dicts keep it).        *)
(***************************************************************************)
EXTENDS Integers, Sequences, FiniteSets, TLC

\* ------------------------------------------------------------------------
\* Sequence helpers
\* ------------------------------------------------------------------------

Range(s) == {s[i] : i \in DOMAIN s}

RemoveAt(s, i) == SubSeq(s, 1, i - 1) \o SubSeq(s, i + 1, Len(s))

InsertAt(s, i, x) == SubSeq(s, 1, i - 1) \o <<x>> \o SubSeq(s, i, Len(s))

IsPermutationOf(s, t) ==
    /\ Len(s) = Len(t)
    /\ \E f \in [DOMAIN s -> DOMAIN s] :
          /\ \A i, j \in DOMAIN s : i # j => f[i] # f[j]
          /\ \A i \in DOMAIN s : t[f[i]] = s[i]

\* ------------------------------------------------------------------------
\* Bounds of the model
\* ------------------------------------------------------------------------

\* longest query string of the URLs handed to the path computation
MaxQueryLen == 2

\* ------------------------------------------------------------------------
\* URLs, query parameters
\* ------------------------------------------------------------------------

Owner == "o"
Repository == "r"

RepoPath == <<"repositories", Owner, Repository>>

\* A URL below bitbucket_api_url: the path segments after the prefix and the
\* query as written, pair by pair.
ApiUrl(path, query) == [host |-> "api2", path |-> path, query |-> query]

\* Any other URL (an asset on another host): opaque.
OtherUrl(name) == [host |-> "other", path |-> <<name>>, query |-> <<>>]

\* Parameter values.  parse_qs yields lists of strings, the rewrite rules
\* set lists, strings and integers, and a rule value of None is stored as
\* None when the parameter is absent.
ListVal(items) == [kind |-> "list", items |-> items]
ScalarVal(s) == [kind |-> "scalar", items |-> <<s>>]
NoneVal == [kind |-> "none", items |-> <<"None">>]

Item(name, val) == [name |-> name, val |-> val]

Names(params) == {params[i].name : i \in DOMAIN params}

Lookup(params, name) ==
    LET i == CHOOSE i \in DOMAIN params : params[i].name = name
    IN params[i].val

\* params[name] = val : an existing key keeps its position, a new key goes last
SetParam(params, name, val) ==
    IF name \in Names(params)
    THEN [i \in DOMAIN params |->
            IF params[i].name = name THEN Item(name, val) ELSE params[i]]
    ELSE Append(params, Item(name, val))

\* del params[name]
DelParam(params, name) ==
    LET Keep(it) == it.name # name IN SelectSeq(params, Keep)

\* parse.parse_qs(query): a dict name -> list of values, keyed in order of first
\* appearance; the values of a repeated name are collected in order.
RECURSIVE parse_qs_from(_, _)
parse_qs_from(query, acc) ==
    IF query = <<>> THEN acc
    ELSE LET name == Head(query)[1]
             value == Head(query)[2]
             acc2 == IF name \in Names(acc)
                     THEN SetParam(acc, name,
                              ListVal(Append(Lookup(acc, name).items, value)))
                     ELSE SetParam(acc, name, ListVal(<<value>>))
         IN parse_qs_from(Tail(query), acc2)

parse_qs(query) == parse_qs_from(query, <<>>)

\* full_url_to_query(url): the URL without query and fragment, and the parsed
\* parameters
full_url_to_query(url) ==
    [endpoint |-> [host |-> url.host, path |-> url.path],
     params |-> parse_qs(url.query)]

\* parse.urlencode(params, doseq=True): the items in dictionary order, a list
\* value expanded into one pair per element, a scalar or None as one pair
RECURSIVE urlencode(_)
urlencode(params) ==
    IF params = <<>> THEN <<>>
    ELSE LET it == Head(params)
         IN [i \in DOMAIN it.val.items |-> <<it.name, it.val.items[i]>>]
            \o urlencode(Tail(params))

\* ------------------------------------------------------------------------
\* Strings inside a path segment
\* ------------------------------------------------------------------------

\* The pairs <<p, s>> of segments of this model with p a proper prefix of s.
ProperPrefixes ==
    {<<"r", "r2">>, <<"commit", "commits">>, <<"diff", "diffstat">>}

\* s.startswith(p) for two segments
SegStartsWith(s, p) == p = "" \/ s = p \/ <<p, s>> \in ProperPrefixes

\* \d+ on a segment
IsDigits(s) == s \in {"1", "2"}

\* ------------------------------------------------------------------------
\* Rewrite rules (the rewrite_rules table of __backup_api)
\* ------------------------------------------------------------------------

StrMatcher(path) == [type |-> "str", path |-> path, leaf |-> ""]

\* re.compile(r'repositories/o/r/<mid>/(\d+)/<leaf>(\?*)(?!\/).*')
NumLeafMatcher(mid, leaf) == [type |-> "num_leaf", path |-> <<mid>>, leaf |-> leaf]

\* re.compile(r'repositories/o/r/<mid>/(.+?)/<leaf>(\?*)(?!\/).*')
AnyLeafMatcher(mid, leaf) == [type |-> "any_leaf", path |-> <<mid>>, leaf |-> leaf]

\* re.compile(r'repositories/o/r/<mid>/.*')
BelowMatcher(mid) == [type |-> "below", path |-> <<mid>>, leaf |-> ""]

\* <leaf>(\?*)(?!\/).* at segment k of the path: the segment starts with
\* leaf, and when it is leaf exactly no '/' follows it
LeafAt(path, k, leaf) ==
    /\ k <= Len(path)
    /\ SegStartsWith(path[k], leaf)
    /\ path[k] = leaf => k = Len(path)

\* endpoint_match.findall(endpoint) is non-empty
PatternMatches(m, path) ==
    /\ Len(path) >= 4
    /\ SubSeq(path, 1, 3) = RepoPath
    /\ path[4] = m.path[1]
    /\ CASE m.type = "num_leaf" ->
              /\ Len(path) >= 6
              /\ IsDigits(path[5])
              /\ LeafAt(path, 6, m.leaf)
         [] m.type = "any_leaf" ->
              \E k \in 6..Len(path) : LeafAt(path, k, m.leaf)
         [] m.type = "below" -> Len(path) >= 5
         [] OTHER -> FALSE

\* (isinstance(endpoint_match, str) and endpoint == endpoint_match) or
\* (isinstance(endpoint_match, re.Pattern) and endpoint_match.findall(endpoint))
MatcherMatches(m, endpoint) ==
    IF m.type = "str"
    THEN endpoint.host = "api2" /\ endpoint.path = m.path
    ELSE endpoint.host = "api2" /\ PatternMatches(m, endpoint.path)

\* params_match values: None, '*' or an exact value
MatchNone == [m |-> "None", val |-> NoneVal]
MatchAny == [m |-> "*", val |-> NoneVal]
MatchExact(val) == [m |-> "eq", val |-> val]

Rewrite(name, m, uname, uval) ==
    [params_match |-> <<[name |-> name, m |-> m]>>,
     params_to_update |-> <<Item(uname, uval)>>]

PagelenAbsent(n) == Rewrite("pagelen", MatchNone, "pagelen", ScalarVal(n))
PageAbsent == Rewrite("page", MatchNone, "page", ScalarVal("1"))
SortAny == Rewrite("sort", MatchAny, "sort", ScalarVal("created_on"))
StateAbsent ==
    Rewrite("state", MatchNone, "state",
            ListVal(<<"MERGED", "OPEN", "SUPERSEDED", "DECLINED">>))

Rule(matchers, rewrites) == [endpoint_match |-> matchers, rewrites |-> rewrites]

rewrite_rules ==
    << Rule(<<StrMatcher(RepoPath \o <<"pullrequests">>)>>,
            <<StateAbsent, PagelenAbsent("50"), PageAbsent, SortAny>>),
       Rule(<<NumLeafMatcher("pullrequests", "activity"),
              StrMatcher(RepoPath \o <<"pullrequests", "activity">>)>>,
            <<PagelenAbsent("50"), SortAny>>),
       Rule(<<NumLeafMatcher("issues", "changes"),
              NumLeafMatcher("pullrequests", "commits"),
              StrMatcher(RepoPath \o <<"refs", "tags">>)>>,
            <<PagelenAbsent("100"), SortAny>>),
       Rule(<<NumLeafMatcher("issues", "attachments"),
              StrMatcher(RepoPath \o <<"components">>),
              StrMatcher(RepoPath \o <<"milestones">>),
              StrMatcher(RepoPath \o <<"refs">>),
              StrMatcher(RepoPath \o <<"refs", "branches">>),
              StrMatcher(RepoPath \o <<"versions">>),
              StrMatcher(RepoPath \o <<"watchers">>)>>,
            <<PagelenAbsent("100"), PageAbsent>>),
       Rule(<<NumLeafMatcher("pullrequests", "comments"),
              NumLeafMatcher("pullrequests", "statuses"),
              NumLeafMatcher("issues", "comments"),
              AnyLeafMatcher("commit", "comments"),
              AnyLeafMatcher("commit", "statuses"),
              BelowMatcher("commits"),
              StrMatcher(RepoPath \o <<"commits">>),
              StrMatcher(RepoPath \o <<"forks">>),
              StrMatcher(RepoPath \o <<"issues">>)>>,
            <<PagelenAbsent("100"), PageAbsent, SortAny>>),
       Rule(<<BelowMatcher("diffstat")>>,
            <<PagelenAbsent("5000"), PageAbsent>>) >>

\* ------------------------------------------------------------------------
\* rewrite_url
\* ------------------------------------------------------------------------

\* the inner loop over rewrite['params_match'].items(): do_rewrite
do_rewrite(params, params_match) ==
    \A i \in DOMAIN params_match :
        LET name == params_match[i].name
            m == params_match[i].m
        IN CASE m.m = "*" -> TRUE
             [] m.m = "None" ->
                   ~(name \in Names(params) /\ Lookup(params, name) # NoneVal)
             [] OTHER ->
                   ~(name \notin Names(params) \/ Lookup(params, name) # m.val)

\* the loop over rewrite['params_to_update'].items()
RECURSIVE apply_updates(_, _)
apply_updates(params, updates) ==
    IF updates = <<>> THEN params
    ELSE LET u == Head(updates)
             p2 == IF u.val = NoneVal /\ u.name \in Names(params)
                   THEN DelParam(params, u.name)
                   ELSE SetParam(params, u.name, u.val)
         IN apply_updates(p2, Tail(updates))

\* a loop that leaves after the first rewrite of the rule
apply_first_rewrite_only(params, rewrites) ==
    IF rewrites = <<>> THEN params
    ELSE IF do_rewrite(params, Head(rewrites).params_match)
         THEN apply_updates(params, Head(rewrites).params_to_update)
         ELSE params

\* the loop over rule['rewrites']
RECURSIVE apply_rewrites(_, _)
apply_rewrites(params, rewrites) ==
    IF rewrites = <<>> THEN params
    ELSE LET rw == Head(rewrites)
             p2 == IF do_rewrite(params, rw.params_match)
                   THEN apply_updates(params, rw.params_to_update)
                   ELSE params
         IN apply_rewrites(p2, Tail(rewrites))

endpoint_matches(rule, endpoint) ==
    \E i \in DOMAIN rule.endpoint_match :
        MatcherMatches(rule.endpoint_match[i], endpoint)

RECURSIVE rewrite_params(_, _, _)
rewrite_params(endpoint, params, rules) ==
    IF rules = <<>> THEN params
    ELSE LET rule == Head(rules)
             p2 == IF endpoint_matches(rule, endpoint)
                   THEN apply_rewrites(params, rule.rewrites)
                   ELSE params
         IN rewrite_params(endpoint, p2, Tail(rules))

rewrite_url(endpoint, params, rules) ==
    [endpoint |-> endpoint, params |-> rewrite_params(endpoint, params, rules)]

\* ------------------------------------------------------------------------
\* The storage path of get_and_save_json
\* ------------------------------------------------------------------------

\* a simplification that keeps the page size in the file name
simplify_params_keeps_pagelen(rewritten_params) ==
    LET p1 == IF "sort" \in Names(rewritten_params)
              THEN DelParam(rewritten_params, "sort") ELSE rewritten_params
        p2 == IF "page" \in Names(p1) /\ "ctx" \in Names(p1)
              THEN DelParam(p1, "ctx") ELSE p1
    IN p2

\* a simplification that drops ctx in every case
simplify_params_drops_ctx(rewritten_params) ==
    LET p1 == IF "sort" \in Names(rewritten_params)
              THEN DelParam(rewritten_params, "sort") ELSE rewritten_params
        p2 == IF "ctx" \in Names(p1) THEN DelParam(p1, "ctx") ELSE p1
        p3 == IF "pagelen" \in Names(p2) THEN DelParam(p2, "pagelen") ELSE p2
    IN p3

\* endpoint_simplified_params: sort dropped, ctx dropped when page is there,
\* pagelen dropped
simplify_params(rewritten_params) ==
    LET p1 == IF "sort" \in Names(rewritten_params)
              THEN DelParam(rewritten_params, "sort") ELSE rewritten_params
        p2 == IF "page" \in Names(p1) /\ "ctx" \in Names(p1)
              THEN DelParam(p1, "ctx") ELSE p1
        p3 == IF "pagelen" \in Names(p2) THEN DelParam(p2, "pagelen") ELSE p2
    IN p3

\* A file of the raw archive: save_path joined with the endpoint, '_' and the
\* encoded simplified parameters when there are any, and the extension.
RawPath(endpoint, suffix, ext) ==
    [endpoint |-> endpoint, suffix |-> suffix, ext |-> ext]

\* the head of get_and_save_json: endpoint_path and rewritten_base_url
resolve_json(base_url, rules) ==
    LET q == full_url_to_query(base_url)
        rw == rewrite_url(q.endpoint, q.params, rules)
    IN [endpoint_path |->
            RawPath(rw.endpoint, urlencode(simplify_params(rw.params)), "json"),
        rewritten_url |->
            [host |-> rw.endpoint.host, path |-> rw.endpoint.path,
             query |-> urlencode(rw.params)]]

endpoint_path_of(base_url) == resolve_json(base_url, rewrite_rules).endpoint_path


\* ------------------------------------------------------------------------
\* State
\* ------------------------------------------------------------------------

VARIABLES
    \* two calls of the path computation of get_and_save_json
    u1,         \* base_url of the first call
    u2,         \* base_url of the second call
    path1,      \* endpoint_path of the first call
    path2,      \* endpoint_path of the second call
    pstage      \* "input", "varied" or "resolved"

pathVars == <<u1, u2, path1, path2, pstage>>

VARIABLES
    comments,           \* the loaded list: comments[i] = [id, parent], parent 0 for none
    done_idxs,          \* the indices placed, in placement order
    comment_flat,       \* the ids placed (the keys of comment_flat)
    comment_hierarchy,  \* id (0: the top level) -> ids placed under it, in order
    cursor,             \* the index the for loop of the placement is at
    reordered_comments, \* the result of flatten_comments
    cstage              \* "loading", "placing", "flattened", "raised"

commentVars == <<comments, done_idxs, comment_flat, comment_hierarchy, cursor,
                 reordered_comments, cstage>>


VARIABLES
    \* the file system, kept between runs
    disk,               \* raw archive: storage path -> text of the file
    rel_disk,           \* relative archive: storage path -> text of the file
    download_complete,  \* settings['bitbucket_api_download_complete'], saved
    replace_complete,   \* settings['bitbucket_api_URL_replace_complete'], saved
    \* the memory of the running process
    phase,              \* where the export workflow is
    tree,               \* the crawl tree: position (child indices from the top) -> node
    current_tree_location,
    stack,              \* the active calls of get_and_save_json / download_file
    cache,              \* the keys of DummyResponse.cache
    files_downloaded,
    duplicates_skipped,
    already_downloaded,
    todo,               \* make_urls_relative: the positions still to visit
    \* the history of the runs
    run,                \* number of the process
    seen,               \* rewritten URL -> the responses the remote has given for it
    crawls,             \* the raw archive and the tree at the end of each completed crawl
    completed,          \* raw file -> its text when it was last written completely
    exception,          \* the exception that ended the last process, or "none"
    torn,               \* a process ended while a file was open for writing
    scans               \* the bodies the running process has searched for
                        \* references: <<storage path, "network" or "disk">>

diskVars == <<disk, rel_disk, download_complete, replace_complete>>
memVars == <<phase, tree, current_tree_location, stack, cache, files_downloaded,
             duplicates_skipped, already_downloaded, todo>>
histVars == <<run, seen, crawls, completed, exception, torn, scans>>
crawlVars == <<diskVars, memVars, histVars>>

VARIABLES
    \* one call of rewrite_url
    rw_endpoint,    \* endpoint
    rw_input,       \* params as passed
    rw_params,      \* params, the copy the loops work on
    rw_table,       \* "rewrite_rules" (the table of __backup_api) or "drawn"
    rw_applies,     \* endpoint_matches of the rule the loop is at
    rw_rules,       \* number of rules visited
    rw_rewrites,    \* number of rewrites visited in the rule the loop is at
    rw_reference,   \* the parameters after the same rules by the documented contract
    rw_deleted,     \* parameters an applied rewrite deleted and none has set since
    rw_result,      \* what the call returned
    rw_stage        \* "input", "loop", "returned"

rewriteVars == <<rw_endpoint, rw_input, rw_params, rw_table, rw_applies, rw_rules,
                 rw_rewrites, rw_reference, rw_deleted, rw_result, rw_stage>>

VARIABLES
    \* one reference found by get_and_save_json in a body
    ig_result,      \* the endpoint found
    ig_rules,       \* ignore_rules
    ig_calls,       \* the calls made for it
    ig_stage        \* "input", "scanned"

ignoreVars == <<ig_result, ig_rules, ig_calls, ig_stage>>

VARIABLES
    rl_data,        \* the tokens of the file read from item['endpoint_path']
    rl_children,    \* item['children']
    rl_table,       \* self.__external_URL_rewrites
    rl_replaced,    \* data after the loop over the children
    rl_fixed,       \* data after re.sub(..., self.fix_stupid_bitbucket_urls, data)
    rl_out,         \* the file at new_path
    rl_exception,   \* the exception make_urls_relative ended with
    rl_stage

relativeVars == <<rl_data, rl_children, rl_table, rl_replaced, rl_fixed, rl_out,
                  rl_exception, rl_stage>>

VARIABLES
    \* the reordering pass on one repository, up to the loop over the threads
    repo_links,         \* the names under repo_data['links'] that have an href
    list_files,         \* name of a list -> its page files, in next order; a
                        \* page is the sequence of its values, TRUE for one
                        \* that has links.comments.href
    pull_request_path,  \* the page the while loop is at, or NoListPage
    comment_paths,      \* the threads found: <<list, page, place in the page>>
    reconstructed,      \* the threads the for loop has gone through
    lstage

collectVars == <<repo_links, list_files, pull_request_path, comment_paths,
                 reconstructed, lstage>>

VARIABLES
    \* the page files of one thread in the reordering pass
    page_files,         \* file -> what it held before the pass: values, size, next
    pull_request_file,  \* the file the loading loop is at, or NoFile
    comment_files,      \* the files of the thread, in the order of the next links
    page_values,        \* page_values[i + 1]: the values written to comment_files[i]
    warned,             \* the i for which the warning was printed
    page_exception      \* the exception that ended the pass, or "none"

pageVars == <<page_files, pull_request_file, comment_files, page_values, warned,
              page_exception>>

VARIABLES
    \* the export step of the project, up to the call of backup_api
    selected,                   \* bb_repositories_to_export as the settings file had it
    bb_repositories_to_export,  \* self.__settings['bb_repositories_to_export']
    backup_forks,               \* self.__settings['backup_forks']
    api_download_complete,      \* self.__settings['bitbucket_api_download_complete']
    api_URL_replace_complete,   \* self.__settings['bitbucket_api_URL_replace_complete']
    persisted,                  \* the two flags as the settings file had them
    backup_api_ran,             \* exporter.backup_api() has returned in this process
    make_urls_relative_ran,     \* exporter.make_urls_relative() was called in this process
    fstage                      \* "start", "listed", "crawled", "rewritten", "exited"

forkVars == <<selected, bb_repositories_to_export, backup_forks, api_download_complete,
              api_URL_replace_complete, persisted, backup_api_ran,
              make_urls_relative_ran, fstage>>

nonPathVars == <<commentVars, crawlVars, rewriteVars, ignoreVars, relativeVars,
                 collectVars, pageVars, forkVars>>
nonCommentVars == <<pathVars, crawlVars, rewriteVars, ignoreVars, relativeVars,
                    collectVars, pageVars, forkVars>>
nonCrawlVars == <<pathVars, commentVars, rewriteVars, ignoreVars, relativeVars,
                  collectVars, pageVars, forkVars>>
nonRewriteVars == <<pathVars, commentVars, crawlVars, ignoreVars, relativeVars,
                    collectVars, pageVars, forkVars>>
nonIgnoreVars == <<pathVars, commentVars, crawlVars, rewriteVars, relativeVars,
                   collectVars, pageVars, forkVars>>
nonRelativeVars == <<pathVars, commentVars, crawlVars, rewriteVars, ignoreVars,
                     collectVars, pageVars, forkVars>>
nonCollectVars == <<pathVars, commentVars, crawlVars, rewriteVars, ignoreVars,
                    relativeVars, pageVars, forkVars>>
nonPageCommentVars == <<pathVars, crawlVars, rewriteVars, ignoreVars, relativeVars,
                        collectVars, forkVars>>
nonForkVars == <<pathVars, commentVars, crawlVars, rewriteVars, ignoreVars,
                 relativeVars, collectVars, pageVars>>


\* ------------------------------------------------------------------------
\* The path computation on pairs of URLs
\* ------------------------------------------------------------------------

ParamNames == {"sort", "pagelen", "page", "ctx", "q"}
ParamValues == {"1", "2"}
QueryPairs == ParamNames \X ParamValues

Queries == UNION {[1..n -> QueryPairs] : n \in 0..MaxQueryLen}

\* an endpoint with page, pagelen and sort rules, one without any rule and
\* the pull request list
PathEndpoints ==
    {RepoPath \o <<"issues">>, RepoPath \o <<"issues", "1">>,
     RepoPath \o <<"pullrequests">>}

NoPath == RawPath([host |-> "none", path |-> <<>>], <<>>, "none")

QueryNames(query) == {query[i][1] : i \in DOMAIN query}

StripNames(query, names) ==
    LET Keep(pair) == pair[1] \notin names IN SelectSeq(query, Keep)

PathInit ==
    /\ u1 \in {ApiUrl(e, q) : e \in PathEndpoints, q \in Queries}
    /\ u2 = u1
    /\ path1 = NoPath
    /\ path2 = NoPath
    /\ pstage = "input"

PathIdle ==
    /\ u1 = ApiUrl(RepoPath, <<>>)
    /\ u2 = u1
    /\ path1 = NoPath
    /\ path2 = NoPath
    /\ pstage = "idle"

\* the second URL gets, loses or changes one sort, pagelen or (next to a page
\* number) ctx parameter
VaryCosmetic ==
    /\ pstage \in {"input", "cosmetic"}
    /\ \E name \in {"sort", "pagelen", "ctx"} :
          /\ name = "ctx" => "page" \in QueryNames(u2.query)
          /\ \/ \E i \in DOMAIN u2.query :
                   /\ u2.query[i][1] = name
                   /\ u2' = [u2 EXCEPT !.query = RemoveAt(u2.query, i)]
             \/ \E i \in DOMAIN u2.query, v \in ParamValues :
                   /\ u2.query[i][1] = name
                   /\ u2.query[i][2] # v
                   /\ u2' = [u2 EXCEPT !.query[i] = <<name, v>>]
             \/ \E i \in 1..(Len(u2.query) + 1), v \in ParamValues :
                   /\ Len(u2.query) < MaxQueryLen
                   /\ u2' = [u2 EXCEPT !.query = InsertAt(u2.query, i, <<name, v>>)]
    /\ pstage' = "cosmetic"
    /\ UNCHANGED <<u1, path1, path2>>
    /\ UNCHANGED nonPathVars

\* the second URL carries the same pairs in another order
Reorder ==
    /\ pstage = "input"
    /\ \E f \in Permutations(DOMAIN u2.query) :
          LET q == [i \in DOMAIN u2.query |-> u2.query[f[i]]]
          IN /\ q # u2.query
             /\ u2' = [u2 EXCEPT !.query = q]
    /\ pstage' = "reordered"
    /\ UNCHANGED <<u1, path1, path2>>
    /\ UNCHANGED nonPathVars

\* the second URL differs in the value of one parameter
VaryValue ==
    /\ pstage = "input"
    /\ \E i \in DOMAIN u2.query, v \in ParamValues :
          /\ u2.query[i][2] # v
          /\ u2' = [u2 EXCEPT !.query[i] = <<u2.query[i][1], v>>]
    /\ pstage' = "changed"
    /\ UNCHANGED <<u1, path1, path2>>
    /\ UNCHANGED nonPathVars

\* both calls compute their endpoint_path
Resolve ==
    /\ pstage \in {"input", "cosmetic", "reordered", "changed"}
    /\ path1' = endpoint_path_of(u1)
    /\ path2' = endpoint_path_of(u2)
    /\ pstage' = "resolved"
    /\ UNCHANGED <<u1, u2>>
    /\ UNCHANGED nonPathVars

PathNext == VaryCosmetic \/ Reorder \/ VaryValue \/ Resolve

\* ------------------------------------------------------------------------
\* Claims about the storage path
\* ------------------------------------------------------------------------

\* the names in which two URLs may differ without changing the file
CosmeticNames(a, b) ==
    {"sort", "pagelen"} \cup
    (IF "page" \in QueryNames(a.query) /\ "page" \in QueryNames(b.query)
     THEN {"ctx"} ELSE {})

DifferOnlyCosmetically(a, b) ==
    /\ a.host = b.host
    /\ a.path = b.path
    /\ StripNames(a.query, CosmeticNames(a, b)) = StripNames(b.query, CosmeticNames(a, b))

DistinctNames(query) == \A i, j \in DOMAIN query : i # j => query[i][1] # query[j][1]

\* C5: two URLs with the same endpoint that differ only in their sort,
\* pagelen or (a page number being present in both) ctx parameters get the
\* same storage path.
C5_FingerprintStability ==
    (pstage = "resolved" /\ DifferOnlyCosmetically(u1, u2)) => path1 = path2

C5_Witness ==
    /\ pstage = "resolved"
    /\ DifferOnlyCosmetically(u1, u2)
    /\ path1 = path2
    /\ \E i \in DOMAIN u1.query, j \in DOMAIN u2.query :
          /\ u1.query[i][1] = "ctx"
          /\ u2.query[j][1] = "ctx"
          /\ u1.query[i][2] # u2.query[j][2]

\* C6: two URLs with the same endpoint whose query strings carry the same
\* parameter names and values in a different order get the same storage path.
C6_OrderIndependent ==
    (/\ pstage = "resolved"
     /\ u1.path = u2.path
     /\ DistinctNames(u1.query)
     /\ IsPermutationOf(u1.query, u2.query)) => path1 = path2

\* the values of a parameter in the query of the URL that is requested (the
\* parameters after rewrite_url)
RewrittenValues(url, name) ==
    LET query == resolve_json(url, rewrite_rules).rewritten_url.query
        Named(pair) == pair[1] = name
        found == SelectSeq(query, Named)
    IN [i \in DOMAIN found |-> found[i][2]]

\* C26: two URLs with the same endpoint whose rewritten parameters differ in
\* the page number, or, neither having a page number, in ctx, get different
\* storage paths.
C26_PageAndCtxKept ==
    (/\ pstage = "resolved"
     /\ u1.path = u2.path
     /\ \/ RewrittenValues(u1, "page") # RewrittenValues(u2, "page")
        \/ /\ RewrittenValues(u1, "page") = <<>>
           /\ RewrittenValues(u2, "page") = <<>>
           /\ RewrittenValues(u1, "ctx") # RewrittenValues(u2, "ctx"))
        => path1 # path2

\* two URLs without page number and with different ctx, else alike
C26_Witness ==
    /\ pstage = "resolved"
    /\ RewrittenValues(u1, "page") = <<>>
    /\ RewrittenValues(u2, "page") = <<>>
    /\ RewrittenValues(u1, "ctx") = <<"1">>
    /\ RewrittenValues(u2, "ctx") = <<"2">>
    /\ StripNames(u1.query, {"ctx"}) = StripNames(u2.query, {"ctx"})
    /\ path1 # path2


\* ------------------------------------------------------------------------
\* Comment threads (the reordering pass of the export workflow)
\* ------------------------------------------------------------------------

\* most comments in a thread
MaxComments == 3

NoParent == 0

\* a comment as loaded; ids are distinct, the id of the i-th comment is i
Comment(id, parent) == [id |-> id, parent |-> parent]

\* the threads of n comments: any parent reference, to a comment of the thread
\* (before or after the reply in the list, the comment itself included) or to
\* the id n + 1 that no comment of the thread has
Threads(n) ==
    {[i \in 1..n |-> Comment(i, par[i])] : par \in [1..n -> 0..(n + 1)]}

CommentInit ==
    /\ comments \in UNION {Threads(n) : n \in 0..MaxComments}
    /\ done_idxs = <<>>
    /\ comment_flat = {}
    /\ comment_hierarchy = [id \in {NoParent} |-> <<>>]
    /\ cursor = 1
    /\ reordered_comments = <<>>
    /\ cstage = "placing"

CommentIdle ==
    /\ comments = <<>>
    /\ done_idxs = <<>>
    /\ comment_flat = {}
    /\ comment_hierarchy = [id \in {NoParent} |-> <<>>]
    /\ cursor = 1
    /\ reordered_comments = <<>>
    /\ cstage = "idle"

\* parent[comment['id']] = d ; comment_flat[comment['id']] = d
\* (an OrderedDict: a new key goes last)
place_under(hierarchy, parent, id) ==
    [k \in DOMAIN hierarchy \cup {id} |->
        IF k = id THEN <<>>
        ELSE IF k = parent THEN Append(hierarchy[k], id)
        ELSE hierarchy[k]]

\* an iteration that places a reply only when its parent stands before it
PlaceStepParentBefore ==
    /\ cstage = "placing"
    /\ cursor <= Len(comments)
    /\ LET comment == comments[cursor]
           found_parent ==
               \/ comment.parent = NoParent
               \/ comment.parent \in comment_flat /\ comment.parent < comment.id
       IN IF cursor \notin Range(done_idxs) /\ found_parent
          THEN /\ done_idxs' = Append(done_idxs, cursor)
               /\ comment_hierarchy' =
                      place_under(comment_hierarchy, comment.parent, comment.id)
               /\ comment_flat' = comment_flat \cup {comment.id}
          ELSE UNCHANGED <<done_idxs, comment_hierarchy, comment_flat>>
    /\ cursor' = cursor + 1
    /\ UNCHANGED <<comments, reordered_comments, cstage>>
    /\ UNCHANGED nonCommentVars

\* one iteration of the for loop of the placement
PlaceStep ==
    /\ cstage = "placing"
    /\ cursor <= Len(comments)
    /\ LET comment == comments[cursor]
           found_parent ==
               comment.parent = NoParent \/ comment.parent \in comment_flat
       IN IF cursor \notin Range(done_idxs) /\ found_parent
          THEN /\ done_idxs' = Append(done_idxs, cursor)
               /\ comment_hierarchy' =
                      place_under(comment_hierarchy, comment.parent, comment.id)
               /\ comment_flat' = comment_flat \cup {comment.id}
          ELSE UNCHANGED <<done_idxs, comment_hierarchy, comment_flat>>
    /\ cursor' = cursor + 1
    /\ UNCHANGED <<comments, reordered_comments, cstage>>
    /\ UNCHANGED nonCommentVars

\* the for loop is over and the while condition holds: another pass
NextPass ==
    /\ cstage = "placing"
    /\ cursor > Len(comments)
    /\ Len(done_idxs) < Len(comments)
    /\ cursor' = 1
    /\ UNCHANGED <<comments, done_idxs, comment_flat, comment_hierarchy,
                   reordered_comments, cstage>>
    /\ UNCHANGED nonCommentVars

\* a flattening that emits the comments level by level
RECURSIVE flatten_level_by_level(_, _, _, _)
flatten_level_by_level(hierarchy, ids, cs, depth) ==
    IF ids = <<>> THEN <<>>
    ELSE LET Out(id) == [id |-> id, parent |-> cs[id].parent,
                         depth |-> IF cs[id].parent # NoParent THEN depth ELSE -1]
             below == [i \in DOMAIN ids |-> hierarchy[ids[i]]]
             RECURSIVE Join(_)
             Join(ss) == IF ss = <<>> THEN <<>> ELSE Head(ss) \o Join(Tail(ss))
         IN [i \in DOMAIN ids |-> Out(ids[i])]
            \o flatten_level_by_level(hierarchy, Join(below), cs, depth + 1)

\* flatten_comments(hierarchy, comments, reordered_comments, depth): the forest
\* below the ids given, depth first; a comment with a parent gets the depth
\* written into its parent reference, a comment without one gets none (-1).
\* (The loop over the ids is unfolded by halves, which gives the sequence of
\* the loop in order and keeps the evaluation shallow on long threads.)
RECURSIVE flatten_comments(_, _, _, _)
flatten_comments(hierarchy, ids, cs, depth) ==
    IF ids = <<>> THEN <<>>
    ELSE IF Len(ids) = 1
    THEN LET id == Head(ids)
             c == [id |-> id, parent |-> cs[id].parent,
                   depth |-> IF cs[id].parent # NoParent THEN depth ELSE -1]
         IN <<c>> \o flatten_comments(hierarchy, hierarchy[id], cs, depth + 1)
    ELSE LET half == Len(ids) \div 2
         IN flatten_comments(hierarchy, SubSeq(ids, 1, half), cs, depth)
            \o flatten_comments(hierarchy, SubSeq(ids, half + 1, Len(ids)), cs, depth)

\* the while loop is over: flatten
Flatten ==
    /\ cstage = "placing"
    /\ cursor > Len(comments)
    /\ ~(Len(done_idxs) < Len(comments))
    /\ reordered_comments' =
           flatten_comments(comment_hierarchy, comment_hierarchy[NoParent], comments, 0)
    /\ cstage' = "flattened"
    /\ UNCHANGED <<comments, done_idxs, comment_flat, comment_hierarchy, cursor>>
    /\ UNCHANGED nonCommentVars

CommentNext == PlaceStep \/ NextPass \/ Flatten

\* ------------------------------------------------------------------------
\* Claims about the comment order
\* ------------------------------------------------------------------------

\* the ancestors of comment i of a thread, following at most Len(cs) references
RECURSIVE AncestorsUpTo(_, _, _)
AncestorsUpTo(cs, i, k) ==
    IF k = 0 \/ cs[i].parent = NoParent \/ cs[i].parent \notin DOMAIN cs THEN {}
    ELSE {cs[i].parent} \cup AncestorsUpTo(cs, cs[i].parent, k - 1)

Ancestors(cs, i) == AncestorsUpTo(cs, i, Len(cs))

\* every parent reference names a comment of the thread and no comment is its
\* own ancestor
WellFormedThread(cs) ==
    \A i \in DOMAIN cs :
        /\ cs[i].parent # NoParent => cs[i].parent \in DOMAIN cs
        /\ i \notin Ancestors(cs, i)

Descendants(cs, i) == {j \in DOMAIN cs : i \in Ancestors(cs, j)}

PositionOf(seq, id) == CHOOSE k \in DOMAIN seq : seq[k].id = id

\* C7: in the flattened sequence of a well-formed thread every comment with a
\* parent comes after its parent, and the descendants of a comment are the
\* block that follows it directly (so they come before every later sibling
\* and that sibling's descendants).
C7_DepthFirstOrder ==
    (cstage = "flattened" /\ WellFormedThread(comments)) =>
        /\ \A i \in DOMAIN comments : \E k \in DOMAIN reordered_comments :
              reordered_comments[k].id = i
        /\ \A i \in DOMAIN comments :
              LET p == PositionOf(reordered_comments, i)
                  d == Descendants(comments, i)
              IN /\ comments[i].parent # NoParent =>
                       PositionOf(reordered_comments, comments[i].parent) < p
                 /\ {reordered_comments[k].id : k \in (p + 1)..(p + Cardinality(d))
                                                       \cap DOMAIN reordered_comments} = d

\* a thread with a reply listed before its parent and a later top-level comment
C7_Witness ==
    /\ cstage = "flattened"
    /\ WellFormedThread(comments)
    /\ \E i, j \in DOMAIN comments :
          /\ comments[i].parent = j
          /\ i < j
          /\ \E s \in DOMAIN comments :
                s > j /\ comments[s].parent = NoParent
    /\ [k \in DOMAIN reordered_comments |-> reordered_comments[k].id]
          # [k \in DOMAIN comments |-> k]

\* C13: in the flattened sequence of a well-formed thread every comment
\* carries a depth, and it is its nesting level: 0 for a comment without a
\* parent, the depth of its parent plus 1 otherwise.
C13_DepthIsNestingLevel ==
    (cstage = "flattened" /\ WellFormedThread(comments)) =>
        \A k \in DOMAIN reordered_comments :
            reordered_comments[k].depth =
                Cardinality(Ancestors(comments, reordered_comments[k].id))

\* C27: in the hierarchy built for a well-formed thread the comments placed
\* under one parent, and those placed at the top level, stand in the order
\* they have in the loaded list (the id of a comment is its place there).
C27_SiblingsInListOrder ==
    (cstage = "flattened" /\ WellFormedThread(comments)) =>
        \A parent \in DOMAIN comment_hierarchy :
            \A a, b \in DOMAIN comment_hierarchy[parent] :
                a < b => comment_hierarchy[parent][a] < comment_hierarchy[parent][b]

\* the comments whose chain of parents ends at a comment without parent
Placeable(cs) ==
    {i \in DOMAIN cs :
        /\ i \notin Ancestors(cs, i)
        /\ \A a \in Ancestors(cs, i) \cup {i} :
              cs[a].parent # NoParent => cs[a].parent \in DOMAIN cs
        /\ \A a \in Ancestors(cs, i) : a \notin Ancestors(cs, a)}

\* C28: the placement loop ends exactly for the well-formed threads; when it
\* has ended every comment has been placed once; for any other thread the
\* loop goes on for ever, pass after pass, and from some pass on the comments
\* placed are those whose chain of parents ends at a root, and no more.
C28_TerminatesIffWellFormed ==
    /\ WellFormedThread(comments) => <>(cstage = "flattened")
    /\ ~WellFormedThread(comments)
          => /\ [](cstage = "placing")
             /\ <>[](Range(done_idxs) = Placeable(comments))
             /\ []<>(cursor = 1)
             /\ []<>(cursor > Len(comments))
    /\ [](cstage = "flattened"
            => /\ Len(done_idxs) = Len(comments)
               /\ Range(done_idxs) = DOMAIN comments)

\* a pass has ended on a thread of two replies to each other and a top-level
\* comment: the top-level comment is placed, the loop goes into another pass
C28_Witness ==
    /\ cstage = "placing"
    /\ comments = <<Comment(1, 2), Comment(2, 1), Comment(3, NoParent)>>
    /\ done_idxs = <<3>>
    /\ cursor > Len(comments)

\* ------------------------------------------------------------------------
\* Texts: response bodies and files
\* ------------------------------------------------------------------------

NoUrl == [host |-> "none", path |-> <<>>, query |-> <<>>]

\* What stands at the place of a link in a text: the absolute URL, or the
\* path of a file of the archive relative to the output root.
AbsRef(url) == [kind |-> "abs", url |-> url, file |-> NoPath]
RelRef(file) == [kind |-> "rel", url |-> NoUrl, file |-> file]

\* One occurrence of a link in a text.  enc is how it is written: "json"
\* ("URL" as a JSON string), "esc" (\"URL\", a quoted attribute of HTML inside
\* a JSON string) or "md" (![](URL)); key is "next" for the value of the
\* top-level member next and "" elsewhere.
Token(enc, key, ref) == [enc |-> enc, key |-> key, ref |-> ref]

\* A text: fmt "wire" (JSON as the server sent it), "dump" (JSON as json.dump
\* writes it), "html" (a body that is no JSON), "bytes" (an asset), "partial"
\* (a file opened for writing and not completed), and its links in order.
Text(fmt, tokens) == [fmt |-> fmt, tokens |-> tokens]

PartialText == Text("partial", <<>>)

\* response.json() succeeds
IsJson(text) == text.fmt \in {"wire", "dump"}

\* a dump that writes the members in the opposite order
json_dump_reversing(text) ==
    Text("dump", [i \in DOMAIN text.tokens |-> text.tokens[Len(text.tokens) + 1 - i]])

\* json.dump(response.json(), f): what the file holds afterwards
json_dump(text) == Text("dump", text.tokens)

\* "next" in json_data, json_data['next']
HasNext(text) == \E i \in DOMAIN text.tokens : text.tokens[i].key = "next"
NextOf(text) ==
    text.tokens[CHOOSE i \in DOMAIN text.tokens : text.tokens[i].key = "next"].ref.url

\* ------------------------------------------------------------------------
\* The remote service of the model
\* ------------------------------------------------------------------------

RootUrl == ApiUrl(RepoPath, <<>>)
IssuesUrl == ApiUrl(RepoPath \o <<"issues">>, <<>>)
IssuesPage2Url ==
    ApiUrl(RepoPath \o <<"issues">>,
           << <<"pagelen", "100">>, <<"sort", "created_on">>, <<"page", "2">> >>)
RestrictedUrl == ApiUrl(RepoPath \o <<"branch-restrictions">>, <<>>)
AvatarUrl == [host |-> "gravatar", path |-> <<"avatar", "a1">>, query |-> <<>>]
ImageUrl == [host |-> "images", path |-> <<"repo", "x", "images", "i1">>, query |-> <<>>]

\* The bodies the service sends.  The repository links to a restricted
\* endpoint, to its issue list and to the owner's avatar; the first issue
\* page has a next link, shows an image (as HTML and as markdown) and links
\* back to the repository; the second page and the restricted endpoint link
\* back to the repository.
RootBody ==
    << Token("json", "", AbsRef(RestrictedUrl)),
       Token("json", "", AbsRef(IssuesUrl)),
       Token("json", "", AbsRef(AvatarUrl)) >>

IssuesBody ==
    << Token("json", "next", AbsRef(IssuesPage2Url)),
       Token("esc", "", AbsRef(ImageUrl)),
       Token("md", "", AbsRef(ImageUrl)),
       Token("json", "", AbsRef(RootUrl)) >>

IssuesPage2Body == << Token("json", "", AbsRef(RootUrl)) >>

RestrictedBody == << Token("json", "", AbsRef(RootUrl)) >>

BodyOf(url) ==
    CASE url.path = RepoPath -> RootBody
      [] url.path = RepoPath \o <<"issues">> /\ <<"page", "2">> \in Range(url.query)
            -> IssuesPage2Body
      [] url.path = RepoPath \o <<"issues">> -> IssuesBody
      [] url.path = RepoPath \o <<"branch-restrictions">> -> RestrictedBody
      [] OTHER -> <<>>

Response(status, text) == [status |-> status, text |-> text]

NoResponse == Response(0, Text("none", <<>>))

\* The responses the service may give to a request of the rewritten URL: the
\* restricted endpoint answers with its JSON, with an error status or with a
\* page that is no JSON; every other endpoint answers with its JSON.
RemoteResponses(rewritten_url) ==
    IF rewritten_url.path = RepoPath \o <<"branch-restrictions">>
    THEN {Response(200, Text("wire", BodyOf(rewritten_url))),
          Response(401, Text("html", <<>>)),
          Response(404, Text("html", <<>>)),
          Response(500, Text("html", <<>>)),
          Response(200, Text("html", <<>>))}
    ELSE {Response(200, Text("wire", BodyOf(rewritten_url)))}

\* ------------------------------------------------------------------------
\* Ignore rules (the ignore_rules table of __backup_api)
\* ------------------------------------------------------------------------

IgnoreRule(type, negated, string) == [type |-> type, negated |-> negated, string |-> string]

ignore_rules ==
    << IgnoreRule("in", FALSE, RepoPath \o <<"patch">>),
       IgnoreRule("in", FALSE, RepoPath \o <<"diff">>),
       IgnoreRule("in", FALSE, RepoPath \o <<"src">>),
       IgnoreRule("in", FALSE, RepoPath \o <<"filehistory">>),
       IgnoreRule("in", FALSE, RepoPath \o <<"downloads">>),
       IgnoreRule("startswith", TRUE, RepoPath),
       IgnoreRule("startswith", FALSE, RepoPath \o <<"issues", "import">>),
       IgnoreRule("startswith", FALSE, RepoPath \o <<"issues", "export">>),
       IgnoreRule("startswith", FALSE, RepoPath \o <<"hooks">>),
       IgnoreRule("endswith", FALSE, <<"", "approve">>),
       IgnoreRule("endswith", FALSE, <<"", "decline">>),
       IgnoreRule("endswith", FALSE, <<"", "merge">>),
       IgnoreRule("endswith", FALSE, <<"", "vote">>),
       IgnoreRule("endswith", FALSE, <<"", "watch">>) >>

\* result.startswith(string): the segments before the last one of string are
\* equal and the next segment of result starts with the last one
StrStartsWith(result, string) ==
    /\ Len(result.path) >= Len(string)
    /\ \A i \in 1..(Len(string) - 1) : result.path[i] = string[i]
    /\ SegStartsWith(result.path[Len(string)], string[Len(string)])

\* result.endswith(string), for a string that begins with '/'
StrEndsWith(result, string) ==
    /\ result.query = <<>>
    /\ Len(result.path) >= Len(string)
    /\ \A i \in 2..Len(string) :
          result.path[Len(result.path) - Len(string) + i] = string[i]

\* string in result, for a string of whole segments but the last
StrContains(result, string) ==
    \E k \in 0..(Len(result.path) - Len(string)) :
        /\ \A i \in 1..(Len(string) - 1) : result.path[k + i] = string[i]
        /\ SegStartsWith(result.path[k + Len(string)], string[Len(string)])

\* a loop that never looks at rule['not']
rule_skips_ignoring_not(rule, result) ==
    CASE rule.type = "in" -> StrContains(result, rule.string)
      [] rule.type = "startswith" -> StrStartsWith(result, rule.string)
      [] rule.type = "endswith" -> StrEndsWith(result, rule.string)
      [] OTHER -> FALSE

\* one turn of the loop over ignore_rules: the value given to skip
rule_skips(rule, result) ==
    LET hit == CASE rule.type = "in" -> StrContains(result, rule.string)
                 [] rule.type = "startswith" -> StrStartsWith(result, rule.string)
                 [] rule.type = "endswith" -> StrEndsWith(result, rule.string)
                 [] OTHER -> FALSE
    IN IF rule.negated THEN ~hit ELSE hit

\* the loop over ignore_rules: skip is the verdict of the first rule that
\* says skip
skip(result, rules) == \E i \in DOMAIN rules : rule_skips(rules[i], result)

\* ------------------------------------------------------------------------
\* What get_and_save_json finds in a body
\* ------------------------------------------------------------------------

Call(fn, url) == [fn |-> fn, url |-> url]

\* the tokens of a text that satisfy Test, their URLs in text order
FindAll(tokens, Test(_)) ==
    LET Keep(t) == t.ref.kind = "abs" /\ Test(t)
        found == SelectSeq(tokens, Keep)
    IN [i \in DOMAIN found |-> found[i].ref.url]

IsAttachmentPath(path) ==
    /\ Len(path) >= 7
    /\ SubSeq(path, 1, 4) = RepoPath \o <<"issues">>
    /\ IsDigits(path[5])
    /\ path[6] = "attachments"

\* file_download_regexes, in order: images and emojis are found as \"URL\",
\* avatars, bytebucket files and issue attachments as "URL"
file_downloads(text) ==
    LET Images(t) == t.enc = "esc" /\ t.ref.url.host = "images"
        Emojis(t) == t.enc = "esc" /\ t.ref.url.host = "emoji"
        Avatars(t) == t.enc = "json" /\ t.ref.url.host = "gravatar"
        Bytebucket(t) == t.enc = "json" /\ t.ref.url.host = "bytebucket"
        Attachments(t) == /\ t.enc = "json"
                          /\ t.ref.url.host = "api2"
                          /\ IsAttachmentPath(t.ref.url.path)
    IN FindAll(text.tokens, Images) \o FindAll(text.tokens, Emojis)
       \o FindAll(text.tokens, Avatars) \o FindAll(text.tokens, Bytebucket)
       \o FindAll(text.tokens, Attachments)

\* prog.findall(response.text): every "https://api.bitbucket.org/2.0/..."
api_references(text) ==
    LET Api(t) == t.enc = "json" /\ t.ref.url.host = "api2"
    IN FindAll(text.tokens, Api)

\* re.match(r'repositories/o/r/issues/(\d+)$', result)
IsBareIssue(result) ==
    /\ result.query = <<>>
    /\ Len(result.path) = 5
    /\ SubSeq(result.path, 1, 4) = RepoPath \o <<"issues">>
    /\ IsDigits(result.path[5])

\* a loop that makes the hack call only for a reference it does not skip
RECURSIVE reference_calls_after_skip(_, _)
reference_calls_after_skip(results, rules) ==
    IF results = <<>> THEN <<>>
    ELSE LET result == Head(results)
         IN (IF skip(result, rules) THEN <<>>
             ELSE (IF IsBareIssue(result)
                   THEN <<Call("json", ApiUrl(result.path \o <<"changes">>, <<>>))>>
                   ELSE <<>>) \o <<Call("json", result)>>)
            \o reference_calls_after_skip(Tail(results), rules)

\* the calls of the loop over the API references
RECURSIVE reference_calls(_, _)
reference_calls(results, rules) ==
    IF results = <<>> THEN <<>>
    ELSE LET result == Head(results)
         IN (IF IsBareIssue(result)
             THEN <<Call("json", ApiUrl(result.path \o <<"changes">>, <<>>))>>
             ELSE <<>>)
            \o (IF skip(result, rules) THEN <<>> ELSE <<Call("json", result)>>)
            \o reference_calls(Tail(results), rules)

\* an order of the calls with the next page after the files and endpoints
calls_of_next_page_last(text, rules) ==
    [i \in DOMAIN file_downloads(text) |-> Call("file", file_downloads(text)[i])]
    \o reference_calls(api_references(text), rules)
    \o (IF HasNext(text) THEN <<Call("json", NextOf(text))>> ELSE <<>>)

\* the calls get_and_save_json makes after it has saved a body, in order: the
\* next page, the files, the other endpoints
calls_of(text, rules) ==
    (IF HasNext(text) THEN <<Call("json", NextOf(text))>> ELSE <<>>)
    \o [i \in DOMAIN file_downloads(text) |-> Call("file", file_downloads(text)[i])]
    \o reference_calls(api_references(text), rules)

\* download_file: the save path of a file
save_path_of(base_url) ==
    RawPath([host |-> base_url.host, path |-> base_url.path], base_url.query, "file")


\* ------------------------------------------------------------------------
\* The crawl tree
\* ------------------------------------------------------------------------

\* The tree is the set of its positions: <<i>> is self.__tree[i], p \o <<i>> is
\* the i-th entry of the children of the node at p (indices count from 0).
Node(url, rewritten_url, endpoint_path, already_processed) ==
    [url |-> url, rewritten_url |-> rewritten_url, endpoint_path |-> endpoint_path,
     already_processed |-> already_processed]

ChildPositions(t, parent) ==
    {q \in DOMAIN t : Len(q) = Len(parent) + 1 /\ SubSeq(q, 1, Len(parent)) = parent}

NumChildren(t, parent) == Cardinality(ChildPositions(t, parent))

\* tree.append(node), tree being the list reached through
\* current_tree_location[:-1]
AppendPosition(t, location) ==
    LET parent == SubSeq(location, 1, Len(location) - 1)
    IN parent \o <<NumChildren(t, parent)>>

WithNode(t, pos, node) ==
    [q \in DOMAIN t \cup {pos} |-> IF q = pos THEN node ELSE t[q]]

tree_new_level(location) == location \o <<0>>

tree_finished_level(location) == SubSeq(location, 1, Len(location) - 1)

\* a cursor that stays where it is
tree_increment_level_stays(location) == location

tree_increment_level(location) ==
    [location EXCEPT ![Len(location)] = @ + 1]

\* the order in which make_urls_relative visits the nodes: an item, the items
\* below it, the next item of the same list
RECURSIVE PreOrderFrom(_, _, _)
PreOrderFrom(t, parent, i) ==
    IF i >= NumChildren(t, parent) THEN <<>>
    ELSE <<parent \o <<i>>>> \o PreOrderFrom(t, parent \o <<i>>, 0)
         \o PreOrderFrom(t, parent, i + 1)

PreOrder(t) == PreOrderFrom(t, <<>>, 0)

\* ------------------------------------------------------------------------
\* The export workflow: one process after another on the same project
\* ------------------------------------------------------------------------

\* most processes started on a project
MaxRuns == 2

\* the retries of one request that are told apart
MaxRetries == 2

\* time.sleep(60*5)
RetryDelaySeconds == 300

\* a response as the history keeps it
Answer(rewritten_url, response) ==
    [url |-> rewritten_url, status |-> response.status, fmt |-> response.text.fmt]

Frame(fn, pc, pos, node, work) ==
    [fn |-> fn, pc |-> pc, pos |-> pos, url |-> node.url,
     rewritten_url |-> node.rewritten_url, endpoint_path |-> node.endpoint_path,
     response |-> NoResponse, data |-> Text("none", <<>>), work |-> work,
     retries |-> 0, sleep |-> 0]

NoNode == Node(NoUrl, NoUrl, NoPath, FALSE)

Top == stack[Len(stack)]

Callers == SubSeq(stack, 1, Len(stack) - 1)

ReplaceTop(frame) == [stack EXCEPT ![Len(stack)] = frame]

WithFile(d, path, text) ==
    [q \in DOMAIN d \cup {path} |-> IF q = path THEN text ELSE d[q]]

\* the memory of a process that has not started the export
FreshMemory(ph) ==
    /\ phase' = ph
    /\ tree' = <<>>
    /\ current_tree_location' = <<>>
    /\ stack' = <<>>
    /\ cache' = {}
    /\ files_downloaded' = 0
    /\ duplicates_skipped' = 0
    /\ already_downloaded' = 0
    /\ todo' = <<>>
    /\ scans' = <<>>

CrawlInit ==
    /\ disk = <<>>
    /\ rel_disk = <<>>
    /\ download_complete = FALSE
    /\ replace_complete = FALSE
    /\ phase = "start"
    /\ tree = <<>>
    /\ current_tree_location = <<>>
    /\ stack = <<>>
    /\ cache = {}
    /\ files_downloaded = 0
    /\ duplicates_skipped = 0
    /\ already_downloaded = 0
    /\ todo = <<>>
    /\ run = 1
    /\ seen = {}
    /\ crawls = <<>>
    /\ completed = <<>>
    /\ exception = "none"
    /\ torn = FALSE
    /\ scans = <<>>

CrawlIdle ==
    /\ disk = <<>>
    /\ rel_disk = <<>>
    /\ download_complete = FALSE
    /\ replace_complete = FALSE
    /\ phase = "idle"
    /\ tree = <<>>
    /\ current_tree_location = <<>>
    /\ stack = <<>>
    /\ cache = {}
    /\ files_downloaded = 0
    /\ duplicates_skipped = 0
    /\ already_downloaded = 0
    /\ todo = <<>>
    /\ run = 1
    /\ seen = {}
    /\ crawls = <<>>
    /\ completed = <<>>
    /\ exception = "none"
    /\ torn = FALSE
    /\ scans = <<>>

\* BitBucketExport(...) and, unless both flags are set, backup_api() up to the
\* call of get_and_save_json for the repository
StartExport ==
    /\ phase = "start"
    /\ tree' = <<>>
    /\ current_tree_location' = tree_new_level(<<>>)
    /\ cache' = {}
    /\ files_downloaded' = 0
    /\ duplicates_skipped' = 0
    /\ already_downloaded' = 0
    /\ todo' = <<>>
    /\ IF ~download_complete \/ ~replace_complete
       THEN /\ phase' = "crawl"
            /\ stack' = <<Frame("backup_api", "scan", <<>>, NoNode,
                                <<Call("json", RootUrl)>>)>>
       ELSE /\ phase' = "done"
            /\ stack' = <<>>
    /\ UNCHANGED <<diskVars, histVars>>
    /\ UNCHANGED nonCrawlVars

\* a prologue that asks the service whether the file is there or not
JsonPrologueAlwaysRequests(base_url, callers) ==
    LET r == resolve_json(base_url, rewrite_rules)
        pos == AppendPosition(tree, current_tree_location)
        node == Node(base_url, r.rewritten_url, r.endpoint_path, FALSE)
    IN /\ tree' = WithNode(tree, pos, node)
       /\ stack' = Append(callers, Frame("json", "request", pos, node, <<>>))
       /\ UNCHANGED <<cache, already_downloaded, duplicates_skipped,
                      current_tree_location>>

\* a prologue that marks every node whose file is there
JsonPrologueMarksStoredNodes(base_url, callers) ==
    LET r == resolve_json(base_url, rewrite_rules)
        pos == AppendPosition(tree, current_tree_location)
        node == Node(base_url, r.rewritten_url, r.endpoint_path, FALSE)
        marked == [node EXCEPT !.already_processed = TRUE]
    IN IF r.endpoint_path \in DOMAIN disk
       THEN IF r.endpoint_path \in cache
            THEN /\ tree' = WithNode(tree, pos, marked)
                 /\ duplicates_skipped' = duplicates_skipped + 1
                 /\ stack' = callers
                 /\ current_tree_location' = tree_increment_level(current_tree_location)
                 /\ UNCHANGED <<cache, already_downloaded>>
            ELSE /\ tree' = WithNode(tree, pos, marked)
                 /\ cache' = cache \cup {r.endpoint_path}
                 /\ already_downloaded' = already_downloaded + 1
                 /\ stack' = Append(callers,
                        [Frame("json", "respond", pos, marked, <<>>)
                           EXCEPT !.response = Response(200, Text("file", <<>>))])
                 /\ UNCHANGED <<duplicates_skipped, current_tree_location>>
       ELSE /\ tree' = WithNode(tree, pos, node)
            /\ stack' = Append(callers, Frame("json", "request", pos, node, <<>>))
            /\ UNCHANGED <<cache, already_downloaded, duplicates_skipped,
                           current_tree_location>>

\* a prologue without the cache of DummyResponse: every load is a first load
JsonPrologueWithoutCache(base_url, callers) ==
    LET r == resolve_json(base_url, rewrite_rules)
        pos == AppendPosition(tree, current_tree_location)
        node == Node(base_url, r.rewritten_url, r.endpoint_path, FALSE)
    IN /\ tree' = WithNode(tree, pos, node)
       /\ IF r.endpoint_path \in DOMAIN disk
          THEN /\ cache' = cache \cup {r.endpoint_path}
               /\ already_downloaded' = already_downloaded + 1
               /\ stack' = Append(callers,
                      [Frame("json", "respond", pos, node, <<>>)
                         EXCEPT !.response = Response(200, Text("file", <<>>))])
               /\ UNCHANGED <<duplicates_skipped, current_tree_location>>
          ELSE /\ stack' = Append(callers, Frame("json", "request", pos, node, <<>>))
               /\ UNCHANGED <<cache, already_downloaded, duplicates_skipped,
                              current_tree_location>>

\* get_and_save_json up to the request: the storage path, the node, and the
\* file that is already there
JsonPrologue(base_url, callers) ==
    LET r == resolve_json(base_url, rewrite_rules)
        pos == AppendPosition(tree, current_tree_location)
        node == Node(base_url, r.rewritten_url, r.endpoint_path, FALSE)
    IN IF r.endpoint_path \in DOMAIN disk
       THEN IF r.endpoint_path \in cache
            THEN \* DummyResponse returns the cached object, already_processed
                 /\ tree' = WithNode(tree, pos, [node EXCEPT !.already_processed = TRUE])
                 /\ duplicates_skipped' = duplicates_skipped + 1
                 /\ stack' = callers
                 /\ current_tree_location' = tree_increment_level(current_tree_location)
                 /\ UNCHANGED <<cache, already_downloaded>>
            ELSE /\ tree' = WithNode(tree, pos, node)
                 /\ cache' = cache \cup {r.endpoint_path}
                 /\ already_downloaded' = already_downloaded + 1
                 /\ stack' = Append(callers,
                        [Frame("json", "respond", pos, node, <<>>)
                           EXCEPT !.response = Response(200, Text("file", <<>>))])
                 /\ UNCHANGED <<duplicates_skipped, current_tree_location>>
       ELSE /\ tree' = WithNode(tree, pos, node)
            /\ stack' = Append(callers, Frame("json", "request", pos, node, <<>>))
            /\ UNCHANGED <<cache, already_downloaded, duplicates_skipped,
                           current_tree_location>>

\* download_file up to the request
FilePrologue(base_url, callers) ==
    LET save_path == save_path_of(base_url)
        pos == AppendPosition(tree, current_tree_location)
        node == Node(base_url, base_url, save_path, FALSE)
    IN /\ UNCHANGED <<cache, duplicates_skipped>>
       /\ IF save_path \in DOMAIN disk
          THEN /\ tree' = WithNode(tree, pos, [node EXCEPT !.already_processed = TRUE])
               /\ already_downloaded' = already_downloaded + 1
               /\ stack' = callers
               /\ current_tree_location' = tree_increment_level(current_tree_location)
          ELSE /\ tree' = WithNode(tree, pos, node)
               /\ stack' = Append(callers, Frame("file", "fetch", pos, node, <<>>))
               /\ UNCHANGED <<already_downloaded, current_tree_location>>

\* get_and_save_json or download_file is about to be called for the first
\* reference left in the body of the function on top
AtCall ==
    /\ phase = "crawl"
    /\ stack # <<>>
    /\ Top.pc = "scan"
    /\ Top.work # <<>>

\* the next call of the function on top: the next page, a file or an endpoint
\* found in the body (for backup_api: the repository)
CallNext ==
    /\ phase = "crawl"
    /\ stack # <<>>
    /\ Top.pc = "scan"
    /\ Top.work # <<>>
    /\ LET call == Head(Top.work)
           callers == ReplaceTop([Top EXCEPT !.work = Tail(@)])
       IN IF call.fn = "json"
          THEN JsonPrologue(call.url, callers)
          ELSE FilePrologue(call.url, callers)
    /\ UNCHANGED <<phase, files_downloaded, todo>>
    /\ UNCHANGED <<diskVars, histVars>>
    /\ UNCHANGED nonCrawlVars

\* bb_query_api: requests.get returns a response
Respond ==
    /\ phase = "crawl"
    /\ stack # <<>>
    /\ Top.fn = "json"
    /\ Top.pc = "request"
    /\ \E response \in RemoteResponses(Top.rewritten_url) :
          /\ stack' = ReplaceTop([Top EXCEPT !.pc = "respond",
                                             !.response = response])
          /\ seen' = seen \cup {Answer(Top.rewritten_url, response)}
    /\ files_downloaded' = files_downloaded + 1
    /\ UNCHANGED <<phase, tree, current_tree_location, cache, duplicates_skipped,
                   already_downloaded, todo>>
    /\ UNCHANGED <<diskVars, run, crawls, completed, exception, torn, scans>>
    /\ UNCHANGED nonCrawlVars

\* a loop that gives up after MaxRetries failures and raises
RequestSSLErrorGivesUp ==
    /\ phase = "crawl"
    /\ stack # <<>>
    /\ Top.fn = "json"
    /\ Top.pc = "request"
    /\ IF Top.retries < MaxRetries
       THEN /\ stack' = ReplaceTop([Top EXCEPT !.pc = "sleep",
                                               !.sleep = RetryDelaySeconds,
                                               !.retries = @ + 1])
            /\ UNCHANGED <<phase, tree, current_tree_location, cache,
                           files_downloaded, duplicates_skipped,
                           already_downloaded, todo, exception, scans>>
       ELSE /\ FreshMemory("crashed")
            /\ exception' = "SSLError"
    /\ UNCHANGED <<diskVars, run, seen, crawls, completed, torn>>
    /\ UNCHANGED nonCrawlVars

\* bb_query_api: requests.get raises SSLError; the loop sleeps
RequestSSLError ==
    /\ phase = "crawl"
    /\ stack # <<>>
    /\ Top.fn = "json"
    /\ Top.pc = "request"
    /\ stack' = ReplaceTop([Top EXCEPT
           !.pc = "sleep",
           !.sleep = RetryDelaySeconds,
           !.retries = IF @ < MaxRetries THEN @ + 1 ELSE @])
    /\ UNCHANGED <<phase, tree, current_tree_location, cache, files_downloaded,
                   duplicates_skipped, already_downloaded, todo>>
    /\ UNCHANGED <<diskVars, histVars>>
    /\ UNCHANGED nonCrawlVars

\* bb_query_api: the sleep is over, the loop asks again
RetryRequest ==
    /\ phase = "crawl"
    /\ stack # <<>>
    /\ Top.pc = "sleep"
    /\ stack' = ReplaceTop([Top EXCEPT !.pc = "request", !.sleep = 0])
    /\ UNCHANGED <<phase, tree, current_tree_location, cache, files_downloaded,
                   duplicates_skipped, already_downloaded, todo>>
    /\ UNCHANGED <<diskVars, histVars>>
    /\ UNCHANGED nonCrawlVars

\* bb_query_api: requests.get raises anything else (a refused or lost
\* connection, a timeout); 'except BaseException: raise' hands it on, nothing
\* above catches it and the process ends
RequestOtherError ==
    /\ phase = "crawl"
    /\ stack # <<>>
    /\ Top.fn = "json"
    /\ Top.pc = "request"
    /\ FreshMemory("crashed")
    /\ exception' = "ConnectionError"
    /\ UNCHANGED <<diskVars, run, seen, crawls, completed, torn>>
    /\ UNCHANGED nonCrawlVars


\* what the function returns to does next: tree_increment_level()
ReturnToCaller(location) ==
    /\ stack' = Callers
    /\ current_tree_location' = tree_increment_level(location)

\* a handling of failures that keeps the body received as the file
DiscardResponseSavingBody ==
    /\ files_downloaded' = files_downloaded - 1
    /\ disk' = WithFile(disk, Top.endpoint_path, Top.response.text)
    /\ ReturnToCaller(current_tree_location)

\* the response is no JSON with status 200: it is counted back, nothing is
\* written and the function returns
DiscardResponse ==
    /\ files_downloaded' = files_downloaded - 1
    /\ ReturnToCaller(current_tree_location)
    /\ UNCHANGED disk

\* get_and_save_json after the response is there: a body that is JSON is
\* parsed and the file opened for writing; anything else is counted back and
\* the function returns
HandleResponse ==
    /\ phase = "crawl"
    /\ stack # <<>>
    /\ Top.pc = "respond"
    /\ LET text == IF Top.response.text.fmt = "file"
                   THEN disk[Top.endpoint_path]      \* DummyResponse reads the file
                   ELSE Top.response.text
       IN IF Top.response.status = 200 /\ IsJson(text)
          THEN /\ disk' = WithFile(disk, Top.endpoint_path, PartialText)
               /\ stack' = ReplaceTop([Top EXCEPT !.pc = "writing", !.data = text])
               /\ UNCHANGED <<files_downloaded, current_tree_location>>
          ELSE DiscardResponse
    /\ UNCHANGED <<phase, tree, cache, duplicates_skipped, already_downloaded, todo>>
    /\ UNCHANGED <<rel_disk, download_complete, replace_complete, histVars>>
    /\ UNCHANGED nonCrawlVars

\* json.dump has written the file and it is closed; tree_new_level(); the
\* body is searched for the next page, files and endpoints
FinishWrite ==
    /\ phase = "crawl"
    /\ stack # <<>>
    /\ Top.fn = "json"
    /\ Top.pc = "writing"
    /\ LET written == json_dump(Top.data)
           \* response.text: the body received, or the file as it is now
           text == IF Top.response.text.fmt = "file" THEN written
                   ELSE Top.response.text
       IN /\ disk' = WithFile(disk, Top.endpoint_path, written)
          /\ completed' = WithFile(completed, Top.endpoint_path, written)
          /\ stack' = ReplaceTop([Top EXCEPT !.pc = "scan",
                                             !.work = calls_of(text, ignore_rules)])
    /\ current_tree_location' = tree_new_level(current_tree_location)
    /\ UNCHANGED <<phase, tree, cache, files_downloaded, duplicates_skipped,
                   already_downloaded, todo>>
    /\ UNCHANGED <<rel_disk, download_complete, replace_complete>>
    /\ scans' = Append(scans, <<Top.endpoint_path,
                                 IF Top.response.text.fmt = "file"
                                 THEN "disk" ELSE "network">>)
    /\ UNCHANGED <<run, seen, crawls, exception, torn>>
    /\ UNCHANGED nonCrawlVars

\* every reference of the body is done: tree_finished_level() and return
ScanEnd ==
    /\ phase = "crawl"
    /\ stack # <<>>
    /\ Top.fn = "json"
    /\ Top.pc = "scan"
    /\ Top.work = <<>>
    /\ ReturnToCaller(tree_finished_level(current_tree_location))
    /\ UNCHANGED <<phase, tree, cache, files_downloaded, duplicates_skipped,
                   already_downloaded, todo>>
    /\ UNCHANGED <<diskVars, histVars>>
    /\ UNCHANGED nonCrawlVars

\* download_file: requests.get(base_url, stream=True) returns and the file is
\* opened
FileFetch ==
    /\ phase = "crawl"
    /\ stack # <<>>
    /\ Top.fn = "file"
    /\ Top.pc = "fetch"
    /\ disk' = WithFile(disk, Top.endpoint_path, PartialText)
    /\ stack' = ReplaceTop([Top EXCEPT !.pc = "writing"])
    /\ UNCHANGED <<phase, tree, current_tree_location, cache, files_downloaded,
                   duplicates_skipped, already_downloaded, todo>>
    /\ UNCHANGED <<rel_disk, download_complete, replace_complete, histVars>>
    /\ UNCHANGED nonCrawlVars

\* download_file: the last chunk is written and the file closed
FileWrite ==
    /\ phase = "crawl"
    /\ stack # <<>>
    /\ Top.fn = "file"
    /\ Top.pc = "writing"
    /\ disk' = WithFile(disk, Top.endpoint_path, Text("bytes", <<>>))
    /\ completed' = WithFile(completed, Top.endpoint_path, Text("bytes", <<>>))
    /\ files_downloaded' = files_downloaded + 1
    /\ ReturnToCaller(current_tree_location)
    /\ UNCHANGED <<phase, tree, cache, duplicates_skipped, already_downloaded, todo>>
    /\ UNCHANGED <<rel_disk, download_complete, replace_complete>>
    /\ UNCHANGED <<run, seen, crawls, exception, torn, scans>>
    /\ UNCHANGED nonCrawlVars

\* download_file: requests.get or iter_content raises; get_and_save_json
\* prints and raises again, and the process ends (with the file as far as it
\* was written)
FileError ==
    /\ phase = "crawl"
    /\ stack # <<>>
    /\ Top.fn = "file"
    /\ Top.pc \in {"fetch", "writing"}
    /\ FreshMemory("crashed")
    /\ exception' = "DownloadError"
    /\ torn' = (torn \/ Top.pc = "writing")
    /\ UNCHANGED <<diskVars, run, seen, crawls, completed>>
    /\ UNCHANGED nonCrawlVars

\* __backup_api and backup_api return
BackupEnd ==
    /\ phase = "crawl"
    /\ stack # <<>>
    /\ Top.fn = "backup_api"
    /\ Top.work = <<>>
    /\ phase' = "crawled"
    /\ stack' = <<>>
    /\ UNCHANGED <<tree, current_tree_location, cache, files_downloaded,
                   duplicates_skipped, already_downloaded, todo>>
    /\ UNCHANGED <<diskVars, histVars>>
    /\ UNCHANGED nonCrawlVars

\* the workflow after backup_api: the download flag is set and saved; the
\* rewrite follows unless its flag is set
FinishBackup ==
    /\ phase = "crawled"
    /\ download_complete' = TRUE
    /\ crawls' = Append(crawls, [run |-> run, disk |-> disk, tree |-> tree])
    /\ IF replace_complete
       THEN phase' = "done" /\ todo' = <<>>
       ELSE phase' = "rewrite" /\ todo' = PreOrder(tree)
    /\ UNCHANGED <<tree, current_tree_location, stack, cache, files_downloaded,
                   duplicates_skipped, already_downloaded>>
    /\ UNCHANGED <<disk, rel_disk, replace_complete>>
    /\ UNCHANGED <<run, seen, completed, exception, torn, scans>>
    /\ UNCHANGED nonCrawlVars

\* ------------------------------------------------------------------------
\* make_urls_relative
\* ------------------------------------------------------------------------

\* child['endpoint_path'].replace(save_path, 'data'): the file of the child,
\* relative to the output root
new_url_of(child) == RelRef(child.endpoint_path)

\* the three replacements for one child: "URL", \"URL\" and ![](URL)
replace_child(tokens, child) ==
    [i \in DOMAIN tokens |->
        IF /\ tokens[i].enc \in {"json", "esc", "md"}
           /\ tokens[i].ref = AbsRef(child.url)
        THEN [tokens[i] EXCEPT !.ref = new_url_of(child)]
        ELSE tokens[i]]

RECURSIVE replace_children(_, _)
replace_children(tokens, children) ==
    IF children = <<>> THEN tokens
    ELSE replace_children(replace_child(tokens, Head(children)), Tail(children))

\* what stands for a link after the repository fix-ups: #!/ and the path
PageRef(path) ==
    [kind |-> "page", url |-> [host |-> "page", path |-> path, query |-> <<>>],
     file |-> NoPath]

\* https://api.bitbucket.org/<path> with no API version, as BitBucket writes
\* it into rendered content, and https://bitbucket.org/<path>
MalformedUrl(path) == [host |-> "api", path |-> path, query |-> <<>>]
WebUrl(path) == [host |-> "web", path |-> path, query |-> <<>>]

\* self.__repository_list and the keys of mapping: the repository exported
repository_list == {<<Owner, Repository>>}
mapping == {<<Owner, Repository>>}

\* a fix-up that sends every API URL of an exported repository to its page
fix_stupid_bitbucket_urls_of_api(token) ==
    LET path == token.ref.url.path
    IN IF /\ token.enc \in {"json", "esc"}
          /\ token.ref.kind = "abs"
          /\ token.ref.url.host = "api2"
          /\ Len(path) >= 3
          /\ path[1] = "repositories"
          /\ <<path[2], path[3]>> \in repository_list
       THEN [token EXCEPT !.ref = PageRef(SubSeq(path, 2, Len(path)))]
       ELSE IF /\ token.enc = "esc"
               /\ token.ref.kind = "abs"
               /\ token.ref.url.host = "api"
               /\ Len(path) >= 2
            THEN IF <<path[1], path[2]>> \in repository_list
                 THEN [token EXCEPT !.ref = PageRef(path)]
                 ELSE [token EXCEPT !.ref = AbsRef(WebUrl(path))]
            ELSE token

\* a fix-up that sends every link outside the export to the web site
fix_stupid_bitbucket_urls_any_version(token) ==
    LET path == token.ref.url.path
        segments == IF token.ref.url.host = "api2" THEN <<"2.0">> \o path ELSE path
    IN IF /\ token.enc = "esc"
          /\ token.ref.kind = "abs"
          /\ token.ref.url.host \in {"api", "api2"}
          /\ Len(segments) >= 2
       THEN IF <<segments[1], segments[2]>> \in repository_list
            THEN [token EXCEPT !.ref = PageRef(segments)]
            ELSE [token EXCEPT !.ref = AbsRef(WebUrl(segments))]
       ELSE token

\* re.sub(r'\\\"(https://api.bitbucket.org/(.*?)/(.*?)((\\\")|(/(.*?))\\\"))',
\* self.fix_stupid_bitbucket_urls, data) at one link: the pattern finds only
\* \"URL\"; groups 2 and 3 are the first two segments after the host, "2.0"
\* and "repositories" for a URL of the API, which is left as it is
fix_stupid_bitbucket_urls(token) ==
    LET path == token.ref.url.path
    IN IF /\ token.enc = "esc"
          /\ token.ref.kind = "abs"
          /\ token.ref.url.host = "api"
          /\ Len(path) >= 2
       THEN IF <<path[1], path[2]>> \in repository_list
            THEN [token EXCEPT !.ref = PageRef(path)]
            ELSE IF path[1] \notin {"2.0", "1.0"}
                 THEN [token EXCEPT !.ref = AbsRef(WebUrl(path))]
                 ELSE token
       ELSE token

\* data.replace('https://bitbucket.org/{name}', '#!/{name}') for the names of
\* mapping, at one link: any text that begins with the URL of the repository
replace_mapped(token) ==
    LET path == token.ref.url.path
    IN IF /\ token.ref.kind = "abs"
          /\ token.ref.url.host = "web"
          /\ Len(path) >= 2
          /\ \E name \in mapping :
                path[1] = name[1] /\ SegStartsWith(path[2], name[2])
       THEN [token EXCEPT !.ref = PageRef(path)]
       ELSE token

\* the JSON branch of make_urls_relative up to the external table: the links
\* to the children, the fix-ups, the mapping
relative_tokens(tokens, children) ==
    LET replaced == replace_children(tokens, children)
    IN [i \in DOMAIN replaced |->
           replace_mapped(fix_stupid_bitbucket_urls(replaced[i]))]

\* item['children'], in order
ChildrenOf(t, pos) == [i \in 1..NumChildren(t, pos) |-> t[pos \o <<i - 1>>]]

\* the text written to new_path: a JSON file with the links to its children
\* made relative, any other file as it is
rewritten_text(t, pos) ==
    LET item == t[pos]
        data == disk[item.endpoint_path]
    IN IF item.endpoint_path.ext = "json"
       THEN Text(data.fmt, relative_tokens(data.tokens, ChildrenOf(t, pos)))
       ELSE data

\* a test that lets through every item whose source is there
skip_file_source_only(item, raw, relative) ==
    item.endpoint_path \notin DOMAIN raw

\* skip_file: os.path.exists(new_path) or not os.path.exists(item['endpoint_path'])
\* (a file of the raw and its output have the same path under their roots)
skip_file(item, raw, relative) ==
    \/ item.endpoint_path \in DOMAIN relative
    \/ item.endpoint_path \notin DOMAIN raw

\* a pass that does not go into the children of an item it skips
RewriteItemSkippingChildren ==
    /\ phase = "rewrite"
    /\ todo # <<>>
    /\ LET item == tree[Head(todo)]
           new_path == item.endpoint_path
           Below(pos) == /\ Len(pos) > Len(Head(todo))
                         /\ SubSeq(pos, 1, Len(Head(todo))) = Head(todo)
           Outside(pos) == ~Below(pos)
       IN IF skip_file(item, disk, rel_disk)
          THEN /\ todo' = SelectSeq(Tail(todo), Outside)
               /\ UNCHANGED <<phase, rel_disk>>
          ELSE /\ rel_disk' = WithFile(rel_disk, new_path, PartialText)
               /\ phase' = "rewrite_writing"
               /\ UNCHANGED todo
    /\ UNCHANGED <<tree, current_tree_location, stack, cache, files_downloaded,
                   duplicates_skipped, already_downloaded>>
    /\ UNCHANGED <<disk, download_complete, replace_complete, histVars>>
    /\ UNCHANGED nonCrawlVars

\* make_urls_relative at one item: skipped when the output exists or the
\* source is missing, else the output is opened for writing; the children
\* follow in either case
RewriteItem ==
    /\ phase = "rewrite"
    /\ todo # <<>>
    /\ LET item == tree[Head(todo)]
           new_path == item.endpoint_path
       IN IF skip_file(item, disk, rel_disk)
          THEN /\ todo' = Tail(todo)
               /\ UNCHANGED <<phase, rel_disk>>
          ELSE /\ rel_disk' = WithFile(rel_disk, new_path, PartialText)
               /\ phase' = "rewrite_writing"
               /\ UNCHANGED todo
    /\ UNCHANGED <<tree, current_tree_location, stack, cache, files_downloaded,
                   duplicates_skipped, already_downloaded>>
    /\ UNCHANGED <<disk, download_complete, replace_complete, histVars>>
    /\ UNCHANGED nonCrawlVars

\* the output is written and closed
RewriteWrite ==
    /\ phase = "rewrite_writing"
    /\ rel_disk' = WithFile(rel_disk, tree[Head(todo)].endpoint_path,
                            rewritten_text(tree, Head(todo)))
    /\ todo' = Tail(todo)
    /\ phase' = "rewrite"
    /\ UNCHANGED <<tree, current_tree_location, stack, cache, files_downloaded,
                   duplicates_skipped, already_downloaded>>
    /\ UNCHANGED <<disk, download_complete, replace_complete, histVars>>
    /\ UNCHANGED nonCrawlVars

\* make_urls_relative returns; the replace flag is set and saved
RewriteEnd ==
    /\ phase = "rewrite"
    /\ todo = <<>>
    /\ replace_complete' = TRUE
    /\ phase' = "done"
    /\ UNCHANGED <<tree, current_tree_location, stack, cache, files_downloaded,
                   duplicates_skipped, already_downloaded, todo>>
    /\ UNCHANGED <<disk, rel_disk, download_complete, histVars>>
    /\ UNCHANGED nonCrawlVars

\* ------------------------------------------------------------------------
\* Termination and restart
\* ------------------------------------------------------------------------

FileOpen ==
    \/ phase = "rewrite_writing"
    \/ phase = "crawl" /\ stack # <<>> /\ Top.pc = "writing"

\* the process is terminated from outside; the files stay as they are
Kill ==
    /\ phase \in {"crawl", "crawled", "rewrite", "rewrite_writing"}
    /\ torn' = (torn \/ FileOpen)
    /\ FreshMemory("killed")
    /\ UNCHANGED <<diskVars, run, seen, crawls, completed, exception>>
    /\ UNCHANGED nonCrawlVars

\* the user starts the export again on the same project
Restart ==
    /\ phase \in {"killed", "crashed"}
    /\ run < MaxRuns
    /\ run' = run + 1
    /\ exception' = "none"
    /\ FreshMemory("start")
    /\ UNCHANGED <<diskVars, seen, crawls, completed, torn>>
    /\ UNCHANGED nonCrawlVars

CrawlNext ==
    \/ StartExport
    \/ CallNext
    \/ Respond
    \/ RequestSSLError
    \/ RetryRequest
    \/ RequestOtherError
    \/ HandleResponse
    \/ FinishWrite
    \/ ScanEnd
    \/ FileFetch
    \/ FileWrite
    \/ FileError
    \/ BackupEnd
    \/ FinishBackup
    \/ RewriteItem
    \/ RewriteWrite
    \/ RewriteEnd
    \/ Kill
    \/ Restart

\* ------------------------------------------------------------------------
\* Calls of rewrite_url
\* ------------------------------------------------------------------------

MaxRules == 2
MaxRewrites == 2

\* the parameters the drawn rules test and set
RwNames == {"page", "q"}

DrawnMatchers ==
    {StrMatcher(path) : path \in PathEndpoints} \cup {BelowMatcher("issues")}

\* rule['endpoint_match']: one matcher, or two
DrawnMatcherLists ==
    {<<m>> : m \in DrawnMatchers}
        \cup {<<StrMatcher(RepoPath \o <<"pullrequests">>), m>> :
                 m \in {BelowMatcher("issues"), StrMatcher(RepoPath \o <<"issues">>)}}

DrawnMatchValues ==
    {MatchNone, MatchAny, MatchExact(ListVal(<<"1">>)), MatchExact(ScalarVal("9"))}

\* rewrite['params_match']: a dict with one key, or with the two keys
DrawnParamsMatch ==
    {<<[name |-> n, m |-> m]>> : n \in RwNames, m \in DrawnMatchValues}
        \cup {<<[name |-> "page", m |-> m1], [name |-> "q", m |-> m2]>> :
                 m1 \in {MatchNone, MatchExact(ListVal(<<"1">>))},
                 m2 \in {MatchNone, MatchAny}}

\* a value to set, or None
DrawnUpdateValues == {ScalarVal("9"), NoneVal}

\* rewrite['params_to_update']
DrawnParamsToUpdate ==
    {<<Item(n, v)>> : n \in RwNames, v \in DrawnUpdateValues}
        \cup {<<Item("page", v1), Item("q", v2)>> :
                 v1 \in DrawnUpdateValues, v2 \in DrawnUpdateValues}

DrawnRewrites ==
    {[params_match |-> pm, params_to_update |-> up] :
        pm \in DrawnParamsMatch, up \in DrawnParamsToUpdate}

\* a parameter that is not in the set
AbsentVal == [kind |-> "absent", items |-> <<>>]

\* a parameter set as a mapping of every name to its value or to absent
ParamMap(params) ==
    [n \in ParamNames \cup {"state"} |->
        IF n \in Names(params) THEN Lookup(params, n) ELSE AbsentVal]

\* the documented contract of one mutation group on a mapping: applied if
\* every predicate holds ('any' always, 'absent' only if the parameter is not
\* present, an exact value only if present and equal); a mutation of 'delete'
\* removes the parameter, any other sets it
ContractHolds(map, predicate) ==
    CASE predicate.m.m = "*" -> TRUE
      [] predicate.m.m = "None" -> map[predicate.name] = AbsentVal
      [] OTHER -> map[predicate.name] # AbsentVal /\ map[predicate.name] = predicate.m.val

RECURSIVE ContractMutate(_, _)
ContractMutate(map, updates) ==
    IF updates = <<>> THEN map
    ELSE ContractMutate(
             [map EXCEPT ![Head(updates).name] =
                 IF Head(updates).val = NoneVal THEN AbsentVal ELSE Head(updates).val],
             Tail(updates))

ContractApply(map, rewrite) ==
    IF \A i \in DOMAIN rewrite.params_match : ContractHolds(map, rewrite.params_match[i])
    THEN ContractMutate(map, rewrite.params_to_update)
    ELSE map

NoResult == [endpoint |-> [host |-> "none", path |-> <<>>], params |-> <<>>]

\* query strings over the parameters of the drawn rules
DrawnQueries == UNION {[1..n -> RwNames \X ParamValues] : n \in 0..MaxQueryLen}

\* a call with the table of __backup_api, or one with rules drawn as the loop
\* goes
RewriteUrlInit ==
    /\ rw_table \in {"rewrite_rules", "drawn"}
    /\ rw_endpoint \in {[host |-> "api2", path |-> path] : path \in PathEndpoints}
    /\ rw_input \in IF rw_table = "rewrite_rules"
                    THEN {parse_qs(q) : q \in Queries}
                    ELSE {parse_qs(q) : q \in DrawnQueries}
    /\ rw_params = rw_input
    /\ rw_applies = FALSE
    /\ rw_rules = 0
    /\ rw_rewrites = 0
    /\ rw_reference = ParamMap(rw_input)
    /\ rw_deleted = {}
    /\ rw_result = NoResult
    /\ rw_stage = "input"

RewriteUrlIdle ==
    /\ rw_endpoint = NoResult.endpoint
    /\ rw_input = <<>>
    /\ rw_params = <<>>
    /\ rw_table = "none"
    /\ rw_applies = FALSE
    /\ rw_rules = 0
    /\ rw_rewrites = 0
    /\ rw_reference = ParamMap(<<>>)
    /\ rw_deleted = {}
    /\ rw_result = NoResult
    /\ rw_stage = "idle"

\* rewrite_url(endpoint, params, rewrite_rules), as get_and_save_json calls it
CallRewriteUrl ==
    /\ rw_stage = "input"
    /\ rw_table = "rewrite_rules"
    /\ rw_result' = rewrite_url(rw_endpoint, rw_input, rewrite_rules)
    /\ rw_params' = rw_result'.params
    /\ rw_stage' = "returned"
    /\ UNCHANGED <<rw_endpoint, rw_input, rw_table, rw_applies, rw_rules,
                   rw_rewrites, rw_reference, rw_deleted>>
    /\ UNCHANGED nonRewriteVars

\* the loop over rules comes to the next rule of a drawn table: endpoint_matches
VisitRule ==
    /\ rw_stage \in {"input", "loop"}
    /\ rw_table = "drawn"
    /\ rw_rules < MaxRules
    /\ \E matchers \in DrawnMatcherLists :
          rw_applies' = endpoint_matches(Rule(matchers, <<>>), rw_endpoint)
    /\ rw_rules' = rw_rules + 1
    /\ rw_rewrites' = 0
    /\ rw_stage' = "loop"
    /\ UNCHANGED <<rw_endpoint, rw_input, rw_params, rw_table, rw_reference,
                   rw_deleted, rw_result>>
    /\ UNCHANGED nonRewriteVars

\* the parameters named by the updates with a value of None / another value
DeletedNames(updates) ==
    {updates[i].name : i \in {j \in DOMAIN updates : updates[j].val = NoneVal}}
SetNames(updates) ==
    {updates[i].name : i \in {j \in DOMAIN updates : updates[j].val # NoneVal}}

\* the loop over rule['rewrites'] comes to the next rewrite of the rule
VisitRewrite ==
    /\ rw_stage = "loop"
    /\ rw_rewrites < MaxRewrites
    /\ \E rewrite \in DrawnRewrites :
          /\ rw_params' = IF rw_applies
                          THEN apply_rewrites(rw_params, <<rewrite>>)
                          ELSE rw_params
          /\ rw_reference' = IF rw_applies
                             THEN ContractApply(rw_reference, rewrite)
                             ELSE rw_reference
          /\ rw_deleted' =
                IF rw_applies /\ do_rewrite(rw_params, rewrite.params_match)
                THEN (rw_deleted \ SetNames(rewrite.params_to_update))
                         \cup DeletedNames(rewrite.params_to_update)
                ELSE rw_deleted
    /\ rw_rewrites' = rw_rewrites + 1
    /\ UNCHANGED <<rw_endpoint, rw_input, rw_table, rw_applies, rw_rules,
                   rw_result, rw_stage>>
    /\ UNCHANGED nonRewriteVars

\* the loop over rules is over: return endpoint, params
ReturnParams ==
    /\ rw_stage = "loop"
    /\ rw_result' = [endpoint |-> rw_endpoint, params |-> rw_params]
    /\ rw_stage' = "returned"
    /\ UNCHANGED <<rw_endpoint, rw_input, rw_params, rw_table, rw_applies,
                   rw_rules, rw_rewrites, rw_reference, rw_deleted>>
    /\ UNCHANGED nonRewriteVars

RewriteUrlNext == CallRewriteUrl \/ VisitRule \/ VisitRewrite \/ ReturnParams

PullRequestsEndpoint == [host |-> "api2", path |-> RepoPath \o <<"pullrequests">>]

\* C11: for the pull request list of the repository, called with none of
\* state, pagelen, page and sort, rewrite_url with the table of __backup_api
\* returns the endpoint as it was and parameters that hold state = [MERGED,
\* OPEN, SUPERSEDED, DECLINED], pagelen = 50, page = 1 and sort = created_on
\* (and every parameter of the call with its value).
C11_PullRequestDefaults ==
    (/\ rw_stage = "returned"
     /\ rw_table = "rewrite_rules"
     /\ rw_endpoint = PullRequestsEndpoint
     /\ Names(rw_input) \cap {"state", "pagelen", "page", "sort"} = {})
        => /\ rw_result.endpoint = rw_endpoint
           /\ ParamMap(rw_result.params) =
                 [ParamMap(rw_input) EXCEPT
                     !["state"] = ListVal(<<"MERGED", "OPEN", "SUPERSEDED", "DECLINED">>),
                     !["pagelen"] = ScalarVal("50"),
                     !["page"] = ScalarVal("1"),
                     !["sort"] = ScalarVal("created_on")]

C11_Witness ==
    /\ rw_stage = "returned"
    /\ rw_table = "rewrite_rules"
    /\ rw_endpoint = PullRequestsEndpoint
    /\ Names(rw_input) = {"q", "ctx"}
    /\ Names(rw_result.params) = {"q", "ctx", "state", "pagelen", "page", "sort"}

\* C17: after any rules, the parameters rewrite_url works on are those the
\* documented contract gives for the same rules in the same order, and the
\* endpoint is returned as it was.
C17_EqualsContract ==
    rw_table = "drawn"
        => /\ ParamMap(rw_params) = rw_reference
           /\ rw_stage = "returned"
                 => /\ rw_result.endpoint = rw_endpoint
                    /\ ParamMap(rw_result.params) = rw_reference

\* C18: a parameter that an applied rewrite deleted (and none set afterwards)
\* is not in the returned parameters.
C18_DeletedIsAbsent ==
    rw_stage = "returned"
        => \A name \in rw_deleted : name \notin Names(rw_result.params)

\* ------------------------------------------------------------------------
\* The ignore rules on one API reference
\* ------------------------------------------------------------------------

MaxIgnoreRules == 2

\* the references of a body: results of prog.findall
DrawnReferences ==
    {ApiUrl(path, query) :
        path \in {RepoPath, RepoPath \o <<"issues">>, RepoPath \o <<"issues", "1">>,
                  RepoPath \o <<"issues", "1", "changes">>,
                  <<"repositories", Owner, "other", "issues", "1">>,
                  <<"repositories", Owner, "r2">>,
                  <<"repositories", Owner, "r2", "issues">>,
                  RepoPath \o <<"diffstat", "1">>, RepoPath \o <<"diff", "1">>,
                  <<"users", Owner>>},
        query \in {<<>>, << <<"page", "2">> >>}}

\* rule['string'] of a drawn rule: whole segments for 'in' and 'startswith',
\* a '/' and a segment for 'endswith'
DrawnStrings(type) ==
    IF type = "endswith"
    THEN {<<"", "changes">>, <<"", "1">>}
    ELSE {RepoPath, RepoPath \o <<"issues">>, RepoPath \o <<"diff">>, <<"issues">>}

DrawnIgnoreRules ==
    UNION {{IgnoreRule(type, negated, string) :
                negated \in BOOLEAN, string \in DrawnStrings(type)} :
           type \in {"in", "startswith", "endswith"}}

IgnoreInit ==
    /\ ig_result \in DrawnReferences
    /\ ig_rules \in UNION {[1..n -> DrawnIgnoreRules] : n \in 0..MaxIgnoreRules}
                     \cup {ignore_rules}
    /\ ig_calls = <<>>
    /\ ig_stage = "found"

IgnoreIdle ==
    /\ ig_result = ApiUrl(<<>>, <<>>)
    /\ ig_rules = <<>>
    /\ ig_calls = <<>>
    /\ ig_stage = "idle"

\* one turn of the loop over the API references of a body
VisitReference ==
    /\ ig_stage = "found"
    /\ ig_calls' = reference_calls(<<ig_result>>, ig_rules)
    /\ ig_stage' = "visited"
    /\ UNCHANGED <<ig_result, ig_rules>>
    /\ UNCHANGED nonIgnoreVars

IgnoreNext == VisitReference

\* a rule matches a reference: the reference contains / starts with / ends
\* with the string of the rule, or, for a negated rule, it does not
RuleMatches(rule, result) ==
    LET test == \/ rule.type = "in" /\ StrContains(result, rule.string)
                \/ rule.type = "startswith" /\ StrStartsWith(result, rule.string)
                \/ rule.type = "endswith" /\ StrEndsWith(result, rule.string)
    IN rule.negated # test

\* C16: a reference found in a body is recursed into (get_and_save_json is
\* called for it) if and only if no ignore rule matches it.
C16_RecurseIffNoRuleMatches ==
    ig_stage = "visited"
        => ((\E i \in DOMAIN ig_calls : ig_calls[i] = Call("json", ig_result))
               <=> (\A i \in DOMAIN ig_rules : ~RuleMatches(ig_rules[i], ig_result)))

\* a reference that does not start with the string of a negated startswith
\* rule: the rule matches and no call is made
C16_Witness ==
    /\ ig_stage = "visited"
    /\ Len(ig_rules) = 2
    /\ ig_rules[1].negated /\ ~ig_rules[2].negated
    /\ ig_rules[2].type = "endswith"
    /\ ~StrStartsWith(ig_result, ig_rules[1].string)
    /\ ig_rules[1].type = "startswith"
    /\ ig_calls = <<>>

\* the reference is repositories/<owner>/<repo>/issues/<n> of the repository
\* that is crawled, and nothing more
BareIssueReference ==
    /\ ig_result.query = <<>>
    /\ \E n \in {"1", "2"} : ig_result.path = RepoPath \o <<"issues", n>>

ChangesCall == Call("json", ApiUrl(ig_result.path \o <<"changes">>, <<>>))

\* C22: for a reference that is a bare issue reference of the repository,
\* get_and_save_json is called for <reference>/changes, before the reference
\* itself and whether or not an ignore rule skips the reference.
C22_ChangesOfBareIssueCrawled ==
    (ig_stage = "visited" /\ BareIssueReference)
        => /\ ig_calls # <<>>
           /\ Head(ig_calls) = ChangesCall

\* a bare issue reference that a rule skips: the only call is that of /changes
C22_Witness ==
    /\ ig_stage = "visited"
    /\ BareIssueReference
    /\ \E i \in DOMAIN ig_rules : RuleMatches(ig_rules[i], ig_result)
    /\ ig_calls = <<ChangesCall>>

\* the URL is that of the repository crawled or of something below it
OfRepository(url) ==
    /\ Len(url.path) >= Len(RepoPath)
    /\ SubSeq(url.path, 1, Len(RepoPath)) = RepoPath

\* C37: with the ignore rules of __backup_api, every call made for a
\* reference is for a URL of the repository crawled or below it; none is made
\* for a repository of the owner whose name begins with that of the
\* repository.
C37_OnlyOwnRepository ==
    (ig_stage = "visited" /\ ig_rules = ignore_rules)
        => \A i \in DOMAIN ig_calls : OfRepository(ig_calls[i].url)

\* ------------------------------------------------------------------------
\* make_urls_relative on one JSON file
\* ------------------------------------------------------------------------

MaxTokens == 2

\* {"<old base URL>": ["<new archive base URL>", "<new GitHub base URL>"]}
ExternalEntry(old_url, new_url, github_url) ==
    [old_url |-> old_url, new_url |-> new_url, github_url |-> github_url]

OldBaseUrl == [host |-> "old", path |-> <<"lib">>, query |-> <<>>]
NewArchiveUrl == [host |-> "archive", path |-> <<"lib">>, query |-> <<>>]
NewGitHubUrl == [host |-> "github", path |-> <<"lib">>, query |-> <<>>]

\* the links of the files drawn: endpoints of the API, URLs without API
\* version and URLs of the web site, of the repository exported, of one whose
\* name begins like it and of another, and a URL of the external table
DrawnUrls ==
    {RootUrl, IssuesUrl,
     MalformedUrl(<<Owner, Repository>>),
     MalformedUrl(<<Owner, Repository, "issues", "1">>),
     MalformedUrl(<<Owner, "r2">>),
     MalformedUrl(<<"x", "y">>),
     MalformedUrl(<<"1.0", "repositories", Owner, Repository>>),
     WebUrl(<<Owner, Repository, "issues", "1">>),
     WebUrl(<<"x", "y">>),
     OldBaseUrl}

DrawnTokens ==
    {Token(enc, "", AbsRef(url)) : enc \in {"json", "esc", "md"}, url \in DrawnUrls}

ChildNode(url) ==
    Node(url, resolve_json(url, rewrite_rules).rewritten_url, endpoint_path_of(url), FALSE)

RelativeInit ==
    /\ rl_data \in UNION {[1..n -> DrawnTokens] : n \in 0..MaxTokens}
    /\ rl_children \in {<<>>, <<ChildNode(RootUrl)>>, <<ChildNode(IssuesUrl)>>,
                        <<ChildNode(RootUrl), ChildNode(IssuesUrl)>>}
    /\ rl_table \in {<<>>, <<ExternalEntry(OldBaseUrl, NewArchiveUrl, NewGitHubUrl)>>}
    /\ rl_replaced = <<>>
    /\ rl_fixed = <<>>
    /\ rl_out = Text("none", <<>>)
    /\ rl_exception = "none"
    /\ rl_stage = "read"

RelativeIdle ==
    /\ rl_data = <<>>
    /\ rl_children = <<>>
    /\ rl_table = <<>>
    /\ rl_replaced = <<>>
    /\ rl_fixed = <<>>
    /\ rl_out = Text("none", <<>>)
    /\ rl_exception = "none"
    /\ rl_stage = "idle"

\* the JSON branch for one item that is not skipped: the replacements, then
\* 'for old_url, (new_url, _) in self.__external_URL_rewrites', which takes
\* the keys of the dictionary and unpacks the first of them (a string) into
\* two names: ValueError; with an empty table the data is written to new_path
RelativeJson ==
    /\ rl_stage = "read"
    /\ rl_replaced' = replace_children(rl_data, rl_children)
    /\ rl_fixed' = [i \in DOMAIN rl_replaced' |-> fix_stupid_bitbucket_urls(rl_replaced'[i])]
    /\ IF rl_table = <<>>
       THEN /\ rl_out' = Text("dump", relative_tokens(rl_data, rl_children))
            /\ rl_stage' = "written"
            /\ UNCHANGED rl_exception
       ELSE /\ rl_exception' = "ValueError"
            /\ rl_stage' = "raised"
            /\ UNCHANGED rl_out
    /\ UNCHANGED <<rl_data, rl_children, rl_table>>
    /\ UNCHANGED nonRelativeVars

RelativeNext == RelativeJson

IsChildUrl(url) == \E i \in DOMAIN rl_children : rl_children[i].url = url

\* "URL", \"URL\" or ![](URL) with a URL of the API
IsApiLink(token) == token.ref.kind = "abs" /\ token.ref.url.host = "api2"

\* C12 as the specification states it: the quoted URL of the API of the
\* repository exported stands as #!/<owner>/<repo> in the file written.
C12_ApiUrlBecomesPage ==
    rl_stage = "written"
        => \A i \in DOMAIN rl_data :
              rl_data[i] = Token("json", "", AbsRef(RootUrl))
                  => rl_out.tokens[i].ref = PageRef(<<Owner, Repository>>)

\* C12: in the file written a URL of the API stands as the relative path of
\* the file of the child that has this URL, and as it was when no child has
\* it; #!/<owner>/<repo>... stands for \"https://api.bitbucket.org/<owner>/
\* <repo>...\" (no API version, quotes escaped) of the repository exported.
C12_ApiUrlRelativeOrKept ==
    rl_stage = "written"
        => \A i \in DOMAIN rl_data :
              LET token == rl_data[i]
                  out == rl_out.tokens[i]
              IN /\ out.enc = token.enc
                 /\ IsApiLink(token)
                       => out.ref = IF IsChildUrl(token.ref.url)
                                    THEN RelRef(endpoint_path_of(token.ref.url))
                                    ELSE token.ref
                 /\ (/\ token.enc = "esc"
                     /\ token.ref.url.host = "api"
                     /\ SubSeq(token.ref.url.path, 1, 2) = <<Owner, Repository>>)
                       => out.ref = PageRef(token.ref.url.path)

\* a file with the URL of the repository twice, once as the URL of a child,
\* in quotes, and once without API version, in escaped quotes
C12_Witness ==
    /\ rl_stage = "written"
    /\ rl_data = << Token("json", "", AbsRef(RootUrl)),
                    Token("esc", "", AbsRef(MalformedUrl(<<Owner, Repository>>))) >>
    /\ rl_children = <<ChildNode(IssuesUrl)>>
    /\ rl_out.tokens[1].ref = AbsRef(RootUrl)
    /\ rl_out.tokens[2].ref = PageRef(<<Owner, Repository>>)

\* the path of a link after https://api.bitbucket.org/
SegmentsOf(url) == IF url.host = "api2" THEN <<"2.0">> \o url.path ELSE url.path

\* \"https://api.bitbucket.org/<a>/<b>\" or \"https://api.bitbucket.org/<a>/<b>/<rest>\"
IsEscapedApiHostLink(token) ==
    /\ token.enc = "esc"
    /\ token.ref.kind = "abs"
    /\ token.ref.url.host \in {"api", "api2"}
    /\ token.ref.url.query = <<>>
    /\ Len(SegmentsOf(token.ref.url)) >= 2

C14_ExternalTableApplied ==
    (rl_stage # "read" /\ rl_table # <<>>)
        => /\ rl_stage = "written"
           /\ \A i \in DOMAIN rl_data : \A k \in DOMAIN rl_table :
                 rl_data[i].ref = AbsRef(rl_table[k].old_url)
                     => rl_out.tokens[i].ref = AbsRef(rl_table[k].new_url)

\* ------------------------------------------------------------------------
\* The reordering pass: the threads it finds
\* ------------------------------------------------------------------------

\* most pages of the pull request list and of the commit list
MaxListPages == 2

ListNames == {"pullrequests", "commits"}

\* the values of a page of a list: none, one with comments, one without and
\* one with
DrawnListPages == {<<>>, <<TRUE>>, <<FALSE, TRUE>>}

NoListPage == [list |-> "none", page |-> 0]

ListPage(list, page) == [list |-> list, page |-> page]

\* the comments links of the values of a page
comments_links(list, page) ==
    LET values == list_files[list][page]
        places == SelectSeq([i \in DOMAIN values |-> i], LAMBDA i : values[i])
    IN [k \in DOMAIN places |-> <<list, page, places[k]>>]

CollectInit ==
    /\ repo_links \in SUBSET ListNames
    /\ list_files \in [ListNames -> UNION {[1..n -> DrawnListPages] : n \in 0..MaxListPages}]
    /\ \A list \in ListNames : list \in repo_links <=> list_files[list] # <<>>
    /\ pull_request_path = NoListPage
    /\ comment_paths = <<>>
    /\ reconstructed = <<>>
    /\ lstage = "start"

CollectIdle ==
    /\ repo_links = {}
    /\ list_files = [list \in ListNames |-> <<>>]
    /\ pull_request_path = NoListPage
    /\ comment_paths = <<>>
    /\ reconstructed = <<>>
    /\ lstage = "idle"

\* pull_request_path = None, then the path of the pull request list when
\* the repository links to it; comment_paths = []
FindPullRequestList ==
    /\ lstage = "start"
    /\ pull_request_path' = IF "pullrequests" \in repo_links
                            THEN ListPage("pullrequests", 1) ELSE NoListPage
    /\ comment_paths' = <<>>
    /\ lstage' = "pullrequests"
    /\ UNCHANGED <<repo_links, list_files, reconstructed>>
    /\ UNCHANGED nonCollectVars

\* one turn of a while loop over the pages of a list: the comments links of
\* the page are appended, the path moves to the next page or to None
ReadListPage ==
    /\ lstage \in {"pullrequests", "commits"}
    /\ pull_request_path # NoListPage
    /\ LET list == pull_request_path.list
           page == pull_request_path.page
       IN /\ comment_paths' = comment_paths \o comments_links(list, page)
          /\ pull_request_path' = IF page < Len(list_files[list])
                                  THEN ListPage(list, page + 1) ELSE NoListPage
    /\ UNCHANGED <<repo_links, list_files, reconstructed, lstage>>
    /\ UNCHANGED nonCollectVars

\* after the first while loop: the path of the commit list when the
\* repository links to it, and comment_paths = [] once more
FindCommitList ==
    /\ lstage = "pullrequests"
    /\ pull_request_path = NoListPage
    /\ pull_request_path' = IF "commits" \in repo_links
                            THEN ListPage("commits", 1) ELSE pull_request_path
    /\ comment_paths' = <<>>
    /\ lstage' = "commits"
    /\ UNCHANGED <<repo_links, list_files, reconstructed>>
    /\ UNCHANGED nonCollectVars

\* one turn of 'for pull_request_file in comment_paths': the thread is
\* loaded, reconstructed and written
ReconstructThread ==
    /\ lstage = "commits"
    /\ pull_request_path = NoListPage
    /\ Len(reconstructed) < Len(comment_paths)
    /\ reconstructed' = Append(reconstructed, comment_paths[Len(reconstructed) + 1])
    /\ UNCHANGED <<repo_links, list_files, pull_request_path, comment_paths, lstage>>
    /\ UNCHANGED nonCollectVars

\* the for loop is over
ReorderingDone ==
    /\ lstage = "commits"
    /\ pull_request_path = NoListPage
    /\ Len(reconstructed) = Len(comment_paths)
    /\ lstage' = "done"
    /\ UNCHANGED <<repo_links, list_files, pull_request_path, comment_paths,
                   reconstructed>>
    /\ UNCHANGED nonCollectVars

CollectNext ==
    \/ FindPullRequestList
    \/ ReadListPage
    \/ FindCommitList
    \/ ReconstructThread
    \/ ReorderingDone

\* the comments links of the pages of a list
LinksOfList(list) ==
    UNION {Range(comments_links(list, page)) : page \in DOMAIN list_files[list]}

\* C30: when the pass over a repository is over, every comments link of the
\* pages of its pull request list and of its commit list is a thread that
\* has been reconstructed.
C30_BothListsReconstructed ==
    lstage = "done"
        => \A list \in ListNames :
              LinksOfList(list) \subseteq Range(reconstructed)

\* ------------------------------------------------------------------------
\* The reordering pass: the page files of one thread
\* ------------------------------------------------------------------------

\* most page files of a thread
MaxPages == 2

\* reordered_comments[i*100:(i+1)*100]
PageLen == 100

NoFile == 0

\* the numbers of values of a page file: pages are fetched with pagelen=100
DrawnPageSizes == {1, PageLen}

\* the parents of the comments of a thread of n comments: none has a parent;
\* or every comment replies to the last one of the list
DrawnShapes == {"roots", "replies_to_last"}

ThreadOf(n, shape) ==
    [i \in 1..n |->
        Comment(i, IF shape = "replies_to_last" /\ i < n THEN n ELSE NoParent)]

RECURSIVE SumOf(_)
SumOf(sizes) == IF sizes = <<>> THEN 0 ELSE Head(sizes) + SumOf(Tail(sizes))

\* the page files of a thread on disk: the values of the thread in portions
\* of the sizes given, the size reported, the next link
PageFilesOf(sizes, shape, size) ==
    LET thread == ThreadOf(SumOf(sizes), shape)
        before(p) == SumOf(SubSeq(sizes, 1, p - 1))
    IN [p \in DOMAIN sizes |->
           [values |-> SubSeq(thread, before(p) + 1, before(p) + sizes[p]),
            size |-> size,
            next |-> IF p < Len(sizes) THEN p + 1 ELSE NoFile]]

PagesInit ==
    /\ \E sizes \in UNION {[1..k -> DrawnPageSizes] : k \in 1..MaxPages},
          shape \in DrawnShapes, difference \in {0, 1} :
          page_files = PageFilesOf(sizes, shape, SumOf(sizes) + difference)
    /\ pull_request_file = 1
    /\ comment_files = <<1>>
    /\ page_values = <<>>
    /\ warned = {}
    /\ page_exception = "none"
    /\ comments = <<>>
    /\ done_idxs = <<>>
    /\ comment_flat = {}
    /\ comment_hierarchy = [id \in {NoParent} |-> <<>>]
    /\ cursor = 1
    /\ reordered_comments = <<>>
    /\ cstage = "loading"

PagesIdle ==
    /\ page_files = <<>>
    /\ pull_request_file = NoFile
    /\ comment_files = <<>>
    /\ page_values = <<>>
    /\ warned = {}
    /\ page_exception = "none"

\* one turn of 'while pull_request_file': the values of the file are added to
\* comments; the next link, taken as it stands, is the file of the next turn
LoadPage ==
    /\ cstage = "loading"
    /\ pull_request_file # NoFile
    /\ LET comment_data == page_files[pull_request_file]
       IN /\ comments' = comments \o comment_data.values
          /\ IF comment_data.next # NoFile
             THEN /\ pull_request_file' = comment_data.next
                  /\ comment_files' = Append(comment_files, comment_data.next)
                  /\ UNCHANGED cstage
             ELSE /\ pull_request_file' = NoFile
                  /\ cstage' = "placing"
                  /\ UNCHANGED comment_files
    /\ UNCHANGED <<done_idxs, comment_flat, comment_hierarchy, cursor, reordered_comments>>
    /\ UNCHANGED <<page_files, page_values, warned, page_exception>>
    /\ UNCHANGED nonPageCommentVars

\* open(pull_request_file) of a file named by a next link: the link is the
\* path relative to the output root and is opened as it stands, relative to
\* the working directory of the process; elsewhere than in the output root
\* there is no such file
LoadPageError ==
    /\ cstage = "loading"
    /\ pull_request_file # NoFile
    /\ Len(comment_files) > 1
    /\ page_exception' = "FileNotFoundError"
    /\ cstage' = "raised"
    /\ UNCHANGED <<comments, done_idxs, comment_flat, comment_hierarchy, cursor,
                   reordered_comments>>
    /\ UNCHANGED <<page_files, pull_request_file, comment_files, page_values, warned>>
    /\ UNCHANGED nonPageCommentVars

\* a chunk that begins one comment early
chunk_from_99(reordered, i) ==
    SubSeq(reordered, i * (PageLen - 1) + 1,
           IF (i + 1) * PageLen < Len(reordered) THEN (i + 1) * PageLen ELSE Len(reordered))

\* reordered_comments[i*100:(i+1)*100]
chunk(reordered, i) ==
    SubSeq(reordered, i * PageLen + 1,
           IF (i + 1) * PageLen < Len(reordered) THEN (i + 1) * PageLen ELSE Len(reordered))

\* one turn of 'for i, pull_request_file in enumerate(comment_files)': the
\* values of the file become the chunk i, the warning is printed when the
\* number of comments is not the size the file reports, the file is page_values
WritePage ==
    /\ cstage = "flattened"
    /\ Len(page_values) < Len(comment_files)
    /\ LET i == Len(page_values)
           comment_data == page_files[comment_files[i + 1]]
       IN /\ page_values' = Append(page_values, chunk(reordered_comments, i))
          /\ warned' = IF Len(reordered_comments) # comment_data.size
                       THEN warned \cup {i} ELSE warned
    /\ UNCHANGED <<page_files, pull_request_file, comment_files, page_exception>>
    /\ UNCHANGED commentVars
    /\ UNCHANGED nonPageCommentVars

PagesNext ==
    \/ LoadPage
    \/ LoadPageError
    \/ PlaceStep
    \/ NextPass
    \/ Flatten
    \/ WritePage

\* the pass over the thread is over
ThreadWritten == cstage = "flattened" /\ Len(page_values) = Len(comment_files)

\* the comments of the page files before the pass, file after file
LoadedBefore ==
    LET RECURSIVE Values(_)
        Values(p) == IF p > Len(page_files) THEN <<>>
                     ELSE page_files[p].values \o Values(p + 1)
    IN Values(1)

\* C29: when the pass over a thread is over, the file i of the thread holds
\* the comments 100*i .. 100*(i+1)-1 (counted from 0) of the flattened
\* sequence; every comment the files held before is in exactly one place of
\* the files page_values, and there are as many comments as before; the warning
\* was printed for a file exactly when the number of comments is not the
\* size it reports, and every file was page_values.
C29_PagesHoldChunks ==
    ThreadWritten
        => /\ Len(page_values) = Len(page_files)
           /\ \A i \in 0..(Len(page_values) - 1) :
                 /\ \A k \in DOMAIN page_values[i + 1] :
                       page_values[i + 1][k] = reordered_comments[100 * i + k]
                 /\ Len(page_values[i + 1]) =
                       Cardinality({p \in DOMAIN reordered_comments :
                                       100 * i < p /\ p <= 100 * (i + 1)})
                 /\ i \in warned <=> Len(reordered_comments) # page_files[i + 1].size
           /\ \A c \in Range(LoadedBefore) :
                 Cardinality({<<f, k>> \in (DOMAIN page_values) \X (1..PageLen) :
                                 k \in DOMAIN page_values[f] /\ page_values[f][k].id = c.id}) = 1
           /\ SumOf([f \in DOMAIN page_values |-> Len(page_values[f])]) = Len(LoadedBefore)

\* a thread of 101 comments in two files, every comment a reply to the last
\* one: the second file gets the one comment left over, and the warning was
\* printed for both files
C29_Witness ==
    /\ ThreadWritten
    /\ Len(comments) = PageLen + 1
    /\ comments[1].parent = PageLen + 1
    /\ Len(page_values) = 2
    /\ Len(page_values[1]) = PageLen
    /\ page_values[1][1].id = PageLen + 1
    /\ Len(page_values[2]) = 1
    /\ warned = {0, 1}

\* ------------------------------------------------------------------------
\* The export step: the repositories to export
\* ------------------------------------------------------------------------

\* most repositories in the list of the settings file
MaxRepositories == 2

\* A repository record: its full_name and its is_fork field, "absent" for a
\* record that has none (a repository as the user selected it from the
\* listing of the API), "true" (set by the fork search) or "false".
Repo(full_name, is_fork) == [full_name |-> full_name, is_fork |-> is_fork]

FullNames == {"o/r", "o/s", "u/r"}

\* the forks the service lists for a repository, in the order of 'values'
forks_of(full_name) ==
    CASE full_name = "o/r" -> <<"u/r", "v/r">>
      [] full_name = "u/r" -> <<"w/r">>
      [] OTHER -> <<>>

DrawnRecords == {Repo(n, f) : n \in FullNames, f \in {"absent", "true", "false"}}

\* lists of records with different names
DrawnRepositoryLists ==
    {l \in UNION {[1..n -> DrawnRecords] : n \in 0..MaxRepositories} :
        \A i, j \in DOMAIN l : l[i].full_name = l[j].full_name => i = j}

ForksInit ==
    /\ selected \in DrawnRepositoryLists
    /\ bb_repositories_to_export = selected
    /\ backup_forks \in BOOLEAN
    /\ api_download_complete \in BOOLEAN
    /\ api_URL_replace_complete \in BOOLEAN
    /\ persisted = <<api_download_complete, api_URL_replace_complete>>
    /\ backup_api_ran = FALSE
    /\ make_urls_relative_ran = FALSE
    /\ fstage = "start"

ForksIdle ==
    /\ selected = <<>>
    /\ bb_repositories_to_export = <<>>
    /\ backup_forks = FALSE
    /\ api_download_complete = FALSE
    /\ api_URL_replace_complete = FALSE
    /\ persisted = <<FALSE, FALSE>>
    /\ backup_api_ran = FALSE
    /\ make_urls_relative_ran = FALSE
    /\ fstage = "idle"

\* recursively_process_repositories for the forks listed from the k-th on:
\* a fork not in the list is marked, appended, and searched for its forks
\* before the next one
RECURSIVE process_forks(_, _, _)
process_forks(list, forks, k) ==
    IF k > Len(forks) THEN list
    ELSE IF \E i \in DOMAIN list : list[i].full_name = forks[k]
         THEN process_forks(list, forks, k + 1)
         ELSE process_forks(
                  process_forks(Append(list, Repo(forks[k], "true")),
                                forks_of(forks[k]), 1),
                  forks, k + 1)

\* the loop of line 317 from the i-th repository on; the list grows while the
\* loop runs over it
RECURSIVE find_all_forks(_, _)
find_all_forks(list, i) ==
    IF i > Len(list) THEN list
    ELSE find_all_forks(process_forks(list, forks_of(list[i].full_name), 1), i + 1)

\* a filter that removes the records marked as forks
remove_marked_forks(list) ==
    LET Keep(repository) == repository.is_fork # "true"
    IN SelectSeq(list, Keep)

\* [repository for repository in ... if 'is_fork' in repository and not
\* repository['is_fork']]
remove_forks(list) ==
    LET Keep(repository) == repository.is_fork # "absent" /\ repository.is_fork # "true"
    IN SelectSeq(list, Keep)

\* "if we've added new forks, then we need to download them"
ResetFlags(list) ==
    IF Len(list) > Len(selected)
    THEN api_download_complete' = FALSE /\ api_URL_replace_complete' = FALSE
    ELSE UNCHANGED <<api_download_complete, api_URL_replace_complete>>

\* backup_forks is set: the forks of every repository are found and the
\* settings saved
FindForks ==
    /\ fstage = "start"
    /\ backup_forks
    /\ bb_repositories_to_export' = find_all_forks(bb_repositories_to_export, 1)
    /\ ResetFlags(bb_repositories_to_export')
    /\ fstage' = "listed"
    /\ UNCHANGED <<selected, backup_forks, persisted, backup_api_ran,
                   make_urls_relative_ran>>
    /\ UNCHANGED nonForkVars

\* a request for the forks of a repository fails: sys.exit(0), nothing saved
FindForksFails ==
    /\ fstage = "start"
    /\ backup_forks
    /\ bb_repositories_to_export # <<>>
    /\ fstage' = "exited"
    /\ UNCHANGED <<selected, bb_repositories_to_export, backup_forks,
                   api_download_complete, api_URL_replace_complete, persisted,
                   backup_api_ran, make_urls_relative_ran>>
    /\ UNCHANGED nonForkVars

\* backup_forks is not set: the forks are removed from the list
RemoveForks ==
    /\ fstage = "start"
    /\ ~backup_forks
    /\ bb_repositories_to_export' = remove_forks(bb_repositories_to_export)
    /\ ResetFlags(bb_repositories_to_export')
    /\ fstage' = "listed"
    /\ UNCHANGED <<selected, backup_forks, persisted, backup_api_ran,
                   make_urls_relative_ran>>
    /\ UNCHANGED nonForkVars

\* a workflow that crawls only while the download flag is not set
ExportBackupUnlessDownloaded ==
    /\ fstage = "listed"
    /\ IF ~api_download_complete
       THEN backup_api_ran' = TRUE /\ api_download_complete' = TRUE
       ELSE UNCHANGED <<backup_api_ran, api_download_complete>>
    /\ fstage' = "crawled"
    /\ UNCHANGED <<selected, bb_repositories_to_export, backup_forks,
                   api_URL_replace_complete, persisted, make_urls_relative_ran>>
    /\ UNCHANGED nonForkVars

\* BitBucketExport(...); backup_api() unless both flags are set, and the
\* download flag set and saved
ExportBackup ==
    /\ fstage = "listed"
    /\ IF ~api_download_complete \/ ~api_URL_replace_complete
       THEN backup_api_ran' = TRUE /\ api_download_complete' = TRUE
       ELSE UNCHANGED <<backup_api_ran, api_download_complete>>
    /\ fstage' = "crawled"
    /\ UNCHANGED <<selected, bb_repositories_to_export, backup_forks,
                   api_URL_replace_complete, persisted, make_urls_relative_ran>>
    /\ UNCHANGED nonForkVars

\* backup_api() is called and does not return: an exception ends the
\* process, or the process is ended from outside
ExportBackupFails ==
    /\ fstage = "listed"
    /\ ~api_download_complete \/ ~api_URL_replace_complete
    /\ fstage' = "exited"
    /\ UNCHANGED <<selected, bb_repositories_to_export, backup_forks,
                   api_download_complete, api_URL_replace_complete, persisted,
                   backup_api_ran, make_urls_relative_ran>>
    /\ UNCHANGED nonForkVars

\* make_urls_relative() unless the replace flag is set, and the flag set and
\* saved
ExportRewrite ==
    /\ fstage = "crawled"
    /\ IF ~api_URL_replace_complete
       THEN make_urls_relative_ran' = TRUE /\ api_URL_replace_complete' = TRUE
       ELSE UNCHANGED <<make_urls_relative_ran, api_URL_replace_complete>>
    /\ fstage' = "rewritten"
    /\ UNCHANGED <<selected, bb_repositories_to_export, backup_forks,
                   api_download_complete, persisted, backup_api_ran>>
    /\ UNCHANGED nonForkVars

ForksNext ==
    \/ FindForks
    \/ FindForksFails
    \/ RemoveForks
    \/ ExportBackup
    \/ ExportBackupFails
    \/ ExportRewrite

\* C31: with backup_forks false the list after the step holds the selected
\* repositories that are not forks, a record without is_fork among them, in
\* their order, and nothing else.
C31_RemovesExactlyForks ==
    (fstage = "listed" /\ ~backup_forks)
        => bb_repositories_to_export = remove_marked_forks(selected)

\* C38: whatever the two flags were in the settings file, make_urls_relative
\* is called only in a process in which backup_api has returned before.
C38_RewriteOnlyAfterBackup ==
    make_urls_relative_ran => backup_api_ran

\* the settings file had the download flag set and the replace flag not set;
\* no fork was added; backup_api has run again and make_urls_relative after it
C38_Witness ==
    /\ fstage = "rewritten"
    /\ persisted = <<TRUE, FALSE>>
    /\ Len(bb_repositories_to_export) <= Len(selected)
    /\ backup_api_ran
    /\ make_urls_relative_ran

\* ------------------------------------------------------------------------
\* Specifications
\* ------------------------------------------------------------------------

vars == <<pathVars, commentVars, crawlVars, rewriteVars, ignoreVars, relativeVars,
          collectVars, pageVars, forkVars>>

OthersIdle(groups) ==
    /\ "path" \in groups \/ PathIdle
    /\ "comments" \in groups \/ CommentIdle
    /\ "crawl" \in groups \/ CrawlIdle
    /\ "rewrite_url" \in groups \/ RewriteUrlIdle
    /\ "ignore" \in groups \/ IgnoreIdle
    /\ "relative" \in groups \/ RelativeIdle
    /\ "collect" \in groups \/ CollectIdle
    /\ "pages" \in groups \/ PagesIdle
    /\ "forks" \in groups \/ ForksIdle

InitCrawl == CrawlInit /\ OthersIdle({"crawl"})
InitPath == PathInit /\ OthersIdle({"path"})
InitComments == CommentInit /\ OthersIdle({"comments"})
InitRewriteUrl == RewriteUrlInit /\ OthersIdle({"rewrite_url"})
InitIgnore == IgnoreInit /\ OthersIdle({"ignore"})
InitRelative == RelativeInit /\ OthersIdle({"relative"})
InitCollect == CollectInit /\ OthersIdle({"collect"})
InitPages == PagesInit /\ OthersIdle({"comments", "pages"})
InitForks == ForksInit /\ OthersIdle({"forks"})

\* the export workflow against the remote service of the model
Spec == InitCrawl /\ [][CrawlNext]_vars

\* the steps the process takes by itself, but the calls
CrawlStep ==
    \/ StartExport
    \/ RetryRequest
    \/ HandleResponse
    \/ FinishWrite
    \/ ScanEnd
    \/ FileFetch
    \/ FileWrite
    \/ BackupEnd

\* The export workflow with a process that runs while it is not ended from
\* outside and a service that answers in the end: a step the process can
\* take is taken (the last conjunct is WF_vars(CallNext), a call changing the
\* tree and being possible exactly in the states of AtCall), and a request
\* that is made again and again is answered.
SpecCrawlFair ==
    /\ InitCrawl
    /\ [][CrawlNext]_vars
    /\ WF_vars(CrawlStep)
    /\ SF_vars(Respond)
    /\ ([]<>~AtCall \/ []<><<CallNext>>_vars)

\* the path computation on pairs of URLs
SpecPath == InitPath /\ [][PathNext]_vars

\* the comment reconstruction on bounded threads
SpecComments == InitComments /\ [][CommentNext]_vars

\* the process that runs the placement loop is never held back: a step of
\* the loop that can be taken is taken
SpecCommentsFair == InitComments /\ [][CommentNext]_vars /\ WF_vars(CommentNext)

\* calls of rewrite_url, with the table of __backup_api and with drawn rules
SpecRewriteUrl == InitRewriteUrl /\ [][RewriteUrlNext]_vars

\* the ignore rules on one reference
SpecIgnore == InitIgnore /\ [][IgnoreNext]_vars

\* make_urls_relative on one file
SpecRelative == InitRelative /\ [][RelativeNext]_vars

\* the reordering pass on one repository: which threads it goes through
SpecCollect == InitCollect /\ [][CollectNext]_vars

\* the reordering pass on the page files of one thread
SpecPages == InitPages /\ [][PagesNext]_vars

\* the export step on drawn lists of repositories
SpecForks == InitForks /\ [][ForksNext]_vars

\* ------------------------------------------------------------------------
\* Properties of the export workflow
\* ------------------------------------------------------------------------

\* every answer of the service so far was the JSON of the endpoint
RemoteAllJson == \A a \in seen : a.status = 200 /\ a.fmt = "wire"

\* the service has given one answer per URL so far
RemoteStable == \A a, b \in seen : a.url = b.url => a = b

ArchiveUrls ==
    {RootUrl, IssuesUrl, IssuesPage2Url, RestrictedUrl, AvatarUrl, ImageUrl}

IsApiUrl(url) == url.host = RootUrl.host

\* where the content of a URL is stored
TargetPath(url) ==
    IF IsApiUrl(url) THEN endpoint_path_of(url) ELSE save_path_of(url)

UrlStoredAt(path) == CHOOSE url \in ArchiveUrls : TargetPath(url) = path

\* the raw archive of an export that nothing interrupts, when every endpoint
\* answers with its JSON
UninterruptedRaw ==
    [path \in {TargetPath(url) : url \in ArchiveUrls} |->
        LET url == UrlStoredAt(path)
        IN IF IsApiUrl(url)
           THEN json_dump(Text("wire", BodyOf(url)))
           ELSE Text("bytes", <<>>)]

\* the rewritten archive of that export: every link points into the archive
UninterruptedRelative ==
    [path \in DOMAIN UninterruptedRaw |->
        LET data == UninterruptedRaw[path]
        IN Text(data.fmt,
                [i \in DOMAIN data.tokens |->
                    [data.tokens[i] EXCEPT
                        !.ref = RelRef(TargetPath(data.tokens[i].ref.url))]])]

\* C1: an export that was ended and started again, any number of times, ends
\* with the raw and the rewritten archive of an export that nothing
\* interrupted (the service answering every endpoint with its JSON).
C1_ResumeConverges ==
    (phase = "done" /\ RemoteAllJson)
        => (disk = UninterruptedRaw /\ rel_disk = UninterruptedRelative)

\* the crawls i and i+1 of the history were made by consecutive runs
ConsecutiveCrawls(i) == crawls[i + 1].run = crawls[i].run + 1

\* C2: a completed crawl that follows a completed crawl, the service giving
\* the same answers, leaves the raw archive as the first one left it: the
\* same files with the same content.
C2_CrawlIdempotent ==
    \A i \in 1..(Len(crawls) - 1) :
        (ConsecutiveCrawls(i) /\ RemoteStable)
            => crawls[i + 1].disk = crawls[i].disk

C2_Witness ==
    /\ Len(crawls) = 2
    /\ ConsecutiveCrawls(1)
    /\ RemoteStable
    /\ Cardinality(DOMAIN crawls[1].disk) >= 5
    /\ \E path \in DOMAIN crawls[2].disk : crawls[2].disk[path].fmt = "dump"
    /\ already_downloaded > 0

\* the node this step registers for a file that is on disk already
RegistersStoredNode(pos) ==
    /\ pos \in DOMAIN tree' \ DOMAIN tree
    /\ tree'[pos].endpoint_path \in DOMAIN disk

\* a request is never pending for a path that has a file
NoRequestForStoredPath ==
    (stack' # <<>> /\ Top'.pc \in {"request", "sleep", "fetch"})
        => Top'.endpoint_path \notin DOMAIN disk'

\* C3 as the specification states it: a call for a URL whose storage path
\* exists issues no request and adds one to the count of already processed
\* files.
C3_StoredPathCountsAlreadyDownloaded ==
    [][ /\ NoRequestForStoredPath
        /\ \A pos \in DOMAIN tree' :
              RegistersStoredNode(pos)
                  => already_downloaded' = already_downloaded + 1 ]_vars

\* C3: a call for a URL whose storage path exists issues no request.  It adds
\* one to the count of already processed files for a downloaded file, and for
\* an API node the first time the process finds the path on disk; every later
\* call for that path in the process marks the node as processed and adds one
\* to the count of duplicates instead.
C3_StoredPathIssuesNoRequest ==
    [][ /\ NoRequestForStoredPath
        /\ \A pos \in DOMAIN tree' :
              RegistersStoredNode(pos)
                  => LET path == tree'[pos].endpoint_path
                     IN IF path.ext = "json" /\ path \in cache
                        THEN /\ duplicates_skipped' = duplicates_skipped + 1
                             /\ already_downloaded' = already_downloaded
                             /\ tree'[pos].already_processed
                        ELSE /\ already_downloaded' = already_downloaded + 1
                             /\ duplicates_skipped' = duplicates_skipped ]_vars

C3_Witness ==
    /\ phase = "crawl"
    /\ duplicates_skipped > 0
    /\ already_downloaded > 1
    /\ \E pos \in DOMAIN tree :
          /\ tree[pos].already_processed
          /\ tree[pos].endpoint_path.ext = "json"
    /\ \E pos \in DOMAIN tree :
          /\ tree[pos].already_processed
          /\ tree[pos].endpoint_path.ext = "file"

\* C4: after the rewrite, no JSON file of the rewritten archive holds the
\* absolute URL of a child of its node as "URL", \"URL\" or ![](URL).
C4_NoAbsoluteChildLinks ==
    phase = "done"
        => \A pos \in DOMAIN tree :
              LET path == tree[pos].endpoint_path
              IN (path.ext = "json" /\ path \in DOMAIN rel_disk)
                    => \A c \in ChildPositions(tree, pos) :
                       \A i \in DOMAIN rel_disk[path].tokens :
                          LET token == rel_disk[path].tokens[i]
                          IN ~(/\ token.enc \in {"json", "esc", "md"}
                               /\ token.ref = AbsRef(tree[c].url))

\* get_and_save_json holds a response of the service that is not JSON with
\* status 200
FailedResponse ==
    /\ phase = "crawl"
    /\ stack # <<>>
    /\ Top.pc = "respond"
    /\ Top.response.text.fmt # "file"
    /\ ~(Top.response.status = 200 /\ IsJson(Top.response.text))

\* C8: handling a response that is not 200 or not JSON writes no file at the
\* path of the node, leaves the node in the tree without children, raises
\* nothing and returns to the caller, which has its remaining references
\* still to process.
C8_FailedResponseIsolated ==
    [][ (FailedResponse /\ phase' # "killed")
            => /\ disk' = disk
               /\ Top.endpoint_path \notin DOMAIN disk'
               /\ tree' = tree
               /\ Top.pos \in DOMAIN tree'
               /\ NumChildren(tree', Top.pos) = 0
               /\ phase' = "crawl"
               /\ exception' = "none"
               /\ stack' = Callers
               /\ Top'.pc = "scan" ]_vars

C8_Witness ==
    /\ phase = "crawl"
    /\ \E pos \in DOMAIN tree :
          /\ tree[pos].url = RestrictedUrl
          /\ tree[pos].endpoint_path \notin DOMAIN disk
          /\ NumChildren(tree, pos) = 0
          /\ \E a \in seen : a.url = tree[pos].rewritten_url /\ a.status = 404
          \* the caller has gone on to its next reference
          /\ [pos EXCEPT ![Len(pos)] = @ + 1] \in DOMAIN tree

\* C9: when a process has ended by a failure or from outside, every file
\* that had been page_values completely is there with the content it had.
C9_CompletedFilesIntact ==
    phase \in {"killed", "crashed"}
        => \A path \in DOMAIN completed :
              path \in DOMAIN disk /\ disk[path] = completed[path]

\* bb_query_api sleeps before it asks again
Sleeping == phase = "crawl" /\ stack # <<>> /\ Top.pc = "sleep"

\* C10 as the specification states it: no failure of a request of the API
\* comes out of the retry loop and ends the crawl.
C10_NoRequestFailureEndsCrawl == exception # "ConnectionError"

\* C10: an SSLError of a request never ends the process; the loop sleeps 300
\* seconds and asks for the same node again, however often it has failed.
C10_SSLErrorRetried ==
    [][ /\ exception' # "SSLError"
        /\ Sleeping' => Top'.sleep = RetryDelaySeconds
        /\ (Sleeping /\ phase' # "killed")
              => stack' = ReplaceTop([Top EXCEPT !.pc = "request", !.sleep = 0]) ]_vars

C10_Witness ==
    /\ phase = "crawl"
    /\ stack # <<>>
    /\ Top.pc = "request"
    /\ Top.retries = MaxRetries

\* the frames of get_and_save_json that go through the references of a body
ScanningFrames(stk) ==
    {i \in DOMAIN stk : stk[i].fn = "json" /\ stk[i].pc = "scan"}

\* the frame holds a DummyResponse: the file was loaded from disk
LoadedFromDisk(frame) == frame.response.text.fmt = "file"

C20_FirstLoadLikeFresh200 ==
    [][ /\ \A pos \in DOMAIN tree' :
              (RegistersStoredNode(pos) /\ tree'[pos].endpoint_path.ext = "json")
                  => IF tree'[pos].endpoint_path \notin cache
                     THEN /\ already_downloaded' = already_downloaded + 1
                          /\ duplicates_skipped' = duplicates_skipped
                          /\ ~tree'[pos].already_processed
                          /\ tree'[pos].endpoint_path \in cache'
                          /\ Len(stack') = Len(stack) + 1
                          /\ Top'.pos = pos
                          /\ Top'.pc = "respond"
                          /\ Top'.response.status = 200
                          /\ LoadedFromDisk(Top')
                     ELSE /\ tree'[pos].already_processed
                          /\ duplicates_skipped' = duplicates_skipped + 1
                          /\ already_downloaded' = already_downloaded
                          /\ Len(stack') = Len(stack)
                          /\ Top'.pc = "scan"
                          /\ NumChildren(tree', pos) = 0
        /\ \A i \in ScanningFrames(stack') :
              LoadedFromDisk(stack'[i])
                  => NumChildren(tree', stack'[i].pos) + Len(stack'[i].work)
                        = Len(calls_of(disk'[stack'[i].endpoint_path], ignore_rules)) ]_vars

\* a body loaded from disk whose references are all done, a later load of a
\* path among them
C20_Witness ==
    /\ phase = "crawl"
    /\ duplicates_skipped > 0
    /\ \E i \in ScanningFrames(stack) :
          /\ LoadedFromDisk(stack[i])
          /\ stack[i].work = <<>>
          /\ NumChildren(tree, stack[i].pos) >= 2

\* make_urls_relative is writing the output of the item at the head of todo
WritingOutput(path) ==
    /\ phase = "rewrite_writing"
    /\ path = tree[Head(todo)].endpoint_path

\* C15: make_urls_relative changes no output that was there before it came
\* to the item (the only file that changes is the one it has just created),
\* creates no output for an item whose source is missing, and when it
\* returns it would skip every item of the tree: called again it changes no
\* file.
C15_ExistingOutputsKept ==
    [][ /\ \A path \in DOMAIN rel_disk :
              /\ path \in DOMAIN rel_disk'
              /\ rel_disk'[path] # rel_disk[path]
                    => (WritingOutput(path) /\ rel_disk[path] = PartialText)
        /\ \A path \in DOMAIN rel_disk' \ DOMAIN rel_disk :
              /\ path \in DOMAIN disk
              /\ phase = "rewrite"
              /\ WritingOutput(path)'
        /\ (phase = "rewrite" /\ phase' = "done")
              => \A pos \in DOMAIN tree' : skip_file(tree'[pos], disk', rel_disk') ]_vars

\* make_urls_relative has returned: it has kept an output that was there (one
\* left incomplete by an earlier process), page_values one that was not and left
\* out a node without source
C15_Witness ==
    /\ phase = "done"
    /\ replace_complete
    /\ \E pos \in DOMAIN tree :
          /\ tree[pos].endpoint_path \notin DOMAIN disk
          /\ tree[pos].endpoint_path \notin DOMAIN rel_disk
    /\ \E pos \in DOMAIN tree :
          /\ tree[pos].endpoint_path \in DOMAIN rel_disk
          /\ rel_disk[tree[pos].endpoint_path] = PartialText
    /\ \E pos \in DOMAIN tree :
          /\ tree[pos].endpoint_path \in DOMAIN rel_disk
          /\ rel_disk[tree[pos].endpoint_path].fmt = "dump"

\* this step is the first call of the scan of a page with a next link: it
\* registers the node of the page the link names
RegistersNextPage(pos) ==
    /\ pos \in DOMAIN tree' \ DOMAIN tree
    /\ stack # <<>>
    /\ Top.fn = "json"
    /\ Top.pc = "scan"
    /\ HasNext(Top.data)
    /\ NumChildren(tree, Top.pos) = 0
    /\ tree'[pos].url = NextOf(Top.data)

\* C21 as the specification states it: the node of the continuation page is
\* registered at the level of the node of the page that links to it.
C21_NextPageIsSibling ==
    [][ \A pos \in DOMAIN tree' :
            RegistersNextPage(pos)
                => /\ Len(pos) = Len(Top.pos)
                   /\ SubSeq(pos, 1, Len(pos) - 1) = SubSeq(Top.pos, 1, Len(Top.pos) - 1) ]_vars

\* C21: the node of the continuation page is the first child of the node of
\* the page that links to it: a node whose file has a next link and that has
\* children has the page of the link as its child 0.
C21_NextPageIsFirstChild ==
    \A pos \in DOMAIN tree :
        LET path == tree[pos].endpoint_path
        IN (/\ path \in DOMAIN disk
            /\ IsJson(disk[path])
            /\ HasNext(disk[path])
            /\ NumChildren(tree, pos) > 0)
              => tree[pos \o <<0>>].url = NextOf(disk[path])

C21_Witness ==
    /\ phase = "crawl"
    /\ \E pos \in DOMAIN tree :
          /\ tree[pos].url = IssuesUrl
          /\ pos \o <<0>> \in DOMAIN tree
          /\ tree[pos \o <<0>>].url = IssuesPage2Url
          /\ pos \o <<1>> \in DOMAIN tree

\* crawl i has just been completed by the running process: tree is its tree
JustCrawled(i) ==
    /\ Len(crawls) = i
    /\ crawls[i].run = run
    /\ phase \in {"rewrite", "rewrite_writing", "done"}

\* every node of the tree of crawl i, just completed, is a complete file of
\* the archive that the crawl before it left
FoundOnDisk(i) ==
    \A pos \in DOMAIN tree :
        LET path == tree[pos].endpoint_path
        IN /\ path \in DOMAIN crawls[i - 1].disk
           /\ crawls[i - 1].disk[path] = crawls[i].disk[path]
           /\ crawls[i].disk[path].fmt # "partial"

\* C23: the tree of a crawl that finds every node on disk has the positions
\* of the tree of the crawl that fetched the nodes (every request answered
\* with JSON), with the same URL at every position.
C23_SameTreeFromDisk ==
    (/\ JustCrawled(2)
     /\ crawls[1].run = 1
     /\ \A answer \in seen : answer.status = 200 /\ answer.fmt = "wire"
     /\ FoundOnDisk(2))
        => /\ DOMAIN tree = DOMAIN crawls[1].tree
           /\ \A pos \in DOMAIN crawls[1].tree :
                 tree[pos].url = crawls[1].tree[pos].url

\* C24: when a pass of make_urls_relative has ended, every node of the tree
\* whose source file exists has an output file in the relative archive.
C24_EveryNodeWithSourceHasOutput ==
    (phase = "done" /\ tree # <<>>)
        => \A pos \in DOMAIN tree :
              tree[pos].endpoint_path \in DOMAIN disk
                  => tree[pos].endpoint_path \in DOMAIN rel_disk

\* a pass has ended in which the output of the repository was there before
\* the pass (left unfinished by the process before, so the repository was
\* skipped) and the output of its first child was made
C24_Witness ==
    /\ phase = "done"
    /\ run = 2
    /\ <<0, 0>> \in DOMAIN tree
    /\ tree[<<0>>].endpoint_path \in DOMAIN rel_disk
    /\ rel_disk[tree[<<0>>].endpoint_path] = PartialText
    /\ tree[<<0, 0>>].endpoint_path \in DOMAIN rel_disk
    /\ rel_disk[tree[<<0, 0>>].endpoint_path] # PartialText
\* C32: while one repository is crawled no step lowers files_downloaded,
\* already_downloaded or duplicates_skipped.
C32_CountersNeverDecrease ==
    [][(phase = "crawl" /\ phase' = "crawl")
          => /\ files_downloaded' >= files_downloaded
             /\ already_downloaded' >= already_downloaded
             /\ duplicates_skipped' >= duplicates_skipped]_vars

\* C33: at every call the last component of current_tree_location is the
\* length of the child list the node is appended to and the components
\* before it are the position of the node whose body holds the reference;
\* the call appends one node, for the URL called, at current_tree_location,
\* and no other step of the crawl changes the positions of the tree; when
\* the call for the repository has returned and the level is incremented,
\* current_tree_location is the number of root nodes.
C33_TreeCursor ==
    [][/\ (AtCall /\ phase' = "crawl")
           => LET location == current_tree_location
                  parent == SubSeq(location, 1, Len(location) - 1)
              IN /\ location[Len(location)] = NumChildren(tree, parent)
                 /\ parent = Top.pos
                 /\ location \notin DOMAIN tree
                 /\ DOMAIN tree' = DOMAIN tree \cup {location}
                 /\ tree'[location].url = Head(Top.work).url
                 /\ \A pos \in DOMAIN tree : tree'[pos] = tree[pos]
       /\ (~AtCall /\ phase = "crawl" /\ phase' = "crawl") => tree' = tree
       /\ (phase = "crawl" /\ phase' = "crawl" /\ Len(stack) = 2 /\ Len(stack') = 1)
           => current_tree_location' = <<NumChildren(tree', <<>>)>>]_vars

\* the second call made for the body of the issue list, a node two levels
\* below the repository, is about to be made
C33_Witness ==
    /\ AtCall
    /\ Len(current_tree_location) = 3
    /\ current_tree_location[3] = 1
    /\ tree[Top.pos].url = IssuesUrl
    /\ Top.pos \o <<0>> \in DOMAIN tree

\* how often the running process has searched the body of path, taken from
\* source, for references
ScansOf(path, source) ==
    Cardinality({i \in DOMAIN scans : scans[i] = <<path, source>>})

\* C34: a crawl comes to its end (the service links the repository and its
\* issue list to each other, and the repository and the restricted endpoint),
\* and a process searches the body of a storage path at most once as it came
\* from the service and at most once as it was read from disk.
C34_CrawlTerminates ==
    /\ (phase = "crawl") ~> (phase \in {"crawled", "killed", "crashed"})
    /\ [](\A i \in DOMAIN scans :
             /\ ScansOf(scans[i][1], "network") <= 1
             /\ ScansOf(scans[i][1], "disk") <= 1)

\* a crawl has ended in which the body of the repository was searched as the
\* service sent it and, for the link back from the issue list, once more as
\* read from disk
C34_Witness ==
    /\ phase = "crawled"
    /\ ScansOf(tree[<<0>>].endpoint_path, "network") = 1
    /\ ScansOf(tree[<<0>>].endpoint_path, "disk") = 1
    /\ \E pos \in DOMAIN tree :
          /\ tree[pos].url = IssuesUrl
          /\ ScansOf(tree[pos].endpoint_path, "network") = 1

\* C35: when a crawl has ended, no JSON storage file of a node of its tree
\* is a partly written file (one that a process ended before left so has
\* been fetched again and written completely).
C35_PartialFileFetchedAgain ==
    phase = "crawled"
        => \A pos \in DOMAIN tree :
              LET path == tree[pos].endpoint_path
              IN (path.ext = "json" /\ path \in DOMAIN disk)
                    => disk[path] # PartialText

\* C36: when the crawl and the rewrite have ended, every relative path that
\* stands for a link in a file of the relative archive is the path of a file
\* of the relative archive.
C36_RelativeLinksExist ==
    phase = "done"
        => \A path \in DOMAIN rel_disk :
              \A i \in DOMAIN rel_disk[path].tokens :
                  LET ref == rel_disk[path].tokens[i].ref
                  IN ref.kind = "rel" => ref.file \in DOMAIN rel_disk

\* the URLs get_and_save_json calls for a body, in order
UrlsCalledFor(text) ==
    [i \in DOMAIN calls_of(text, ignore_rules) |-> calls_of(text, ignore_rules)[i].url]

\* C39: a JSON output is written at a node whose children are the references
\* found in the content of its source file, one child per call and in the
\* order of the calls, whichever occurrence of the storage path the node is.
C39_OutputFromNodeWithChildren ==
    phase = "rewrite_writing"
        => LET pos == Head(todo)
               path == tree[pos].endpoint_path
               children == ChildrenOf(tree, pos)
           IN (path.ext = "json" /\ IsJson(disk[path]))
                 => [i \in DOMAIN children |-> children[i].url] = UrlsCalledFor(disk[path])

====
